---- MODULE Spec2Model ----
(***************************************************************************)
(* Verification model of the starlight JavaScript engine core:             *)
(*   - object model (crates/vm/src/runtime/js_object.rs)                   *)
(*   - interpreter (crates/starlight/src/vm/interpreter.rs)                *)
(*   - heap cells and weak references (crates/starlight/src/gc/cell.rs,    *)
(*     crates/starlight/src/jsrt/weak_ref.rs)                              *)
(*   - snapshot serializer (crates/starlight/src/gc/snapshot/serializer.rs)*)
(* Structure, Slot, IndexedElements, the collector, the frame stack and    *)
(* the deserializer are not part of the sources at hand; they are modelled *)
(* from the design specification (sections 4.1, 4.2, 4.5, 4.6).            *)
(***************************************************************************)
EXTENDS Integers, Sequences, FiniteSets, TLC

(***************************************************************************)
(* Bounds of the model.                                                    *)
(***************************************************************************)
MaxStructs == 7
MaxObjs == 3
MaxIndex == 2
MaxOps == 2
MaxShapeOps == 4
MaxLayoutOps == 4

\* promotion threshold dense -> sparse (indexed_elements::MAX_VECTOR_SIZE)
MAX_VECTOR_SIZE == 2

NoObj == 0
NoStruct == 0
NoOffset == 0 - 1

(***************************************************************************)
(* Values (JsValue): a tag and a payload.                                  *)
(***************************************************************************)
Undef == [t |-> "undefined", v |-> 0]
Empty == [t |-> "empty", v |-> 0]
OutOfBounds == [t |-> "oob", v |-> 0]
Int32(n) == [t |-> "int32", v |-> n]
Double(n) == [t |-> "double", v |-> n]
ObjRef(o) == [t |-> "object", v |-> o]
\* an accessor pair; v = 1 when a setter cell is present
AccessorVal(hasSetter) == [t |-> "accessor", v |-> IF hasSetter THEN 1 ELSE 0]

PutValues == {Int32(1), Int32(2)}

\* the errors the interpreter makes itself, and an exception of the program
TypeError == [t |-> "TypeError", v |-> 0]
RangeError == [t |-> "RangeError", v |-> 0]
Thrown == [t |-> "thrown", v |-> 0]

(***************************************************************************)
(* Symbols: Symbol::Key(id) and Symbol::Indexed(index).                    *)
(***************************************************************************)
KeySym(n) == [idx |-> FALSE, n |-> n]
IndexSym(n) == [idx |-> TRUE, n |-> n]
NamedKeys == {KeySym(1), KeySym(2)}
IndexKeys == {IndexSym(i) : i \in 0..MaxIndex}
Symbols == NamedKeys \cup IndexKeys

(***************************************************************************)
(* Stored attributes (AttrSafe) and property descriptors.  A descriptor    *)
(* flag is "T", "F" or "A" (absent, the UNDEF_* bits).                     *)
(***************************************************************************)
DataAttr(w, e, c) == [nf |-> FALSE, acc |-> FALSE, w |-> w, e |-> e, c |-> c]
AccAttr(e, c) == [nf |-> FALSE, acc |-> TRUE, w |-> FALSE, e |-> e, c |-> c]
NotFoundAttr == [nf |-> TRUE, acc |-> FALSE, w |-> FALSE, e |-> FALSE, c |-> FALSE]
object_data == DataAttr(TRUE, TRUE, TRUE)

DataDescriptor(val, w, e, c) == [kind |-> "data", v |-> val, vabsent |-> FALSE, w |-> w, e |-> e, c |-> c]
AccessorDescriptor(hasSetter, e, c) ==
    [kind |-> "accessor", v |-> AccessorVal(hasSetter), vabsent |-> FALSE, w |-> "A", e |-> e, c |-> c]

\* W | C | E
DescWCE(val) == DataDescriptor(val, "T", "T", "T")
\* UNDEF_ENUMERABLE | UNDEF_CONFIGURABLE | UNDEF_WRITABLE
DescUndef(val) == DataDescriptor(val, "A", "A", "A")
\* NONE
DescNone(val) == DataDescriptor(val, "F", "F", "F")

desc_is_default(d) == d.kind = "data" /\ d.w = "T" /\ d.e = "T" /\ d.c = "T"

is_absent_descriptor(d) ==
    IF d.e # "T" /\ d.e # "A" THEN FALSE
    ELSE IF d.c # "T" /\ d.c # "A" THEN FALSE
    ELSE IF d.kind = "accessor" THEN FALSE
    ELSE IF d.kind = "data" THEN (d.w = "T") /\ (d.w = "A")
    ELSE TRUE

(***************************************************************************)
(* StoredSlot: a value with its attributes.                                *)
(***************************************************************************)
Flag(f) == f = "T"

StoredSlot_new(d) ==
    IF d.kind = "accessor"
    THEN [value |-> d.v, attrs |-> AccAttr(Flag(d.e), Flag(d.c))]
    ELSE [value |-> IF d.vabsent THEN Undef ELSE d.v,
          attrs |-> DataAttr(Flag(d.w), Flag(d.e), Flag(d.c))]

\* every present field of the descriptor equals the current property
desc_same_as(cur, d) ==
    /\ (d.e = "A" \/ Flag(d.e) = cur.attrs.e)
    /\ (d.c = "A" \/ Flag(d.c) = cur.attrs.c)
    /\ \/ d.kind = "generic"
       \/ /\ d.kind = "data"
          /\ ~cur.attrs.acc
          /\ (d.w = "A" \/ Flag(d.w) = cur.attrs.w)
          /\ (d.vabsent \/ d.v = cur.value)
       \/ /\ d.kind = "accessor"
          /\ cur.attrs.acc
          /\ d.v = cur.value

\* ECMA-262 8.12.9 steps 5-11: merge says whether the descriptor has to be
\* merged into the property, returned is the result of the define
is_defined_property_accepted(cur, d) ==
    IF desc_same_as(cur, d) THEN [merge |-> FALSE, returned |-> TRUE]
    ELSE IF ~cur.attrs.c /\ (d.c = "T" \/ (d.e # "A" /\ Flag(d.e) # cur.attrs.e))
    THEN [merge |-> FALSE, returned |-> FALSE]
    ELSE IF d.kind = "generic" THEN [merge |-> TRUE, returned |-> TRUE]
    ELSE IF cur.attrs.acc # (d.kind = "accessor")
    THEN IF ~cur.attrs.c THEN [merge |-> FALSE, returned |-> FALSE]
         ELSE [merge |-> TRUE, returned |-> TRUE]
    ELSE IF ~cur.attrs.acc
    THEN IF ~cur.attrs.c /\ ~cur.attrs.w
              /\ (d.w = "T" \/ (~d.vabsent /\ d.v # cur.value))
         THEN [merge |-> FALSE, returned |-> FALSE]
         ELSE [merge |-> TRUE, returned |-> TRUE]
    ELSE IF ~cur.attrs.c /\ d.v # cur.value
         THEN [merge |-> FALSE, returned |-> FALSE]
         ELSE [merge |-> TRUE, returned |-> TRUE]

StoredSlot_merge(cur, d) ==
    LET c2 == IF d.c = "A" THEN cur.attrs.c ELSE Flag(d.c)
        e2 == IF d.e = "A" THEN cur.attrs.e ELSE Flag(d.e)
    IN IF d.kind = "generic"
       THEN [value |-> cur.value, attrs |-> [cur.attrs EXCEPT !.c = c2, !.e = e2]]
       ELSE IF d.kind = "data"
       THEN [value |-> IF d.vabsent THEN (IF cur.attrs.acc THEN Undef ELSE cur.value) ELSE d.v,
             attrs |-> DataAttr(IF d.w = "A" THEN (~cur.attrs.acc /\ cur.attrs.w) ELSE Flag(d.w), e2, c2)]
       ELSE [value |-> d.v, attrs |-> AccAttr(e2, c2)]

(***************************************************************************)
(* Slot: the result of a property lookup / the record of a put.            *)
(***************************************************************************)
Slot_new ==
    [used |-> FALSE, value |-> Empty, attrs |-> NotFoundAttr, base |-> NoObj,
     offset |-> NoOffset, put |-> "None", putOffset |-> NoOffset]

slot_is_not_found(slot) == slot.attrs.nf
slot_has_offset(slot) == slot.offset # NoOffset

\* Slot::set_1(value, attrs, base): no offset is handed over
set_1(slot, value, attrs, base) ==
    [slot EXCEPT !.used = TRUE, !.value = value, !.attrs = attrs, !.base = base,
                 !.offset = NoOffset]

set_from_slot(slot, stored, base) ==
    [slot EXCEPT !.used = TRUE, !.value = stored.value, !.attrs = stored.attrs,
                 !.base = base, !.offset = NoOffset]

slot_merge(slot, d) ==
    LET m == StoredSlot_merge([value |-> slot.value, attrs |-> slot.attrs], d)
    IN [slot EXCEPT !.value = m.value, !.attrs = m.attrs]

mark_put_result(slot, kind, offset) == [slot EXCEPT !.put = kind, !.putOffset = offset]

EmptyFn == [x \in {} |-> 0]

(***************************************************************************)
(* Structure (hidden class).  structs maps the address of every allocated  *)
(* Structure to its contents; a heap H is [objs, structs, weak].           *)
(***************************************************************************)
FreeIds(used, max) == (1..max) \ used
LowestFree(used, max) == CHOOSE i \in FreeIds(used, max) : \A j \in FreeIds(used, max) : i <= j

NewSid(H) == LowestFree(DOMAIN H.structs, MaxStructs)

Structure_new(proto, unique, indexed) ==
    [table |-> EmptyFn, trans |-> EmptyFn, deleted |-> << >>, prototype |-> proto,
     previous |-> NoStruct, indexed |-> indexed, unique |-> unique, size |-> 0]

NotFoundEntry == [offset |-> NoOffset, attrs |-> NotFoundAttr]

\* Structure::get(name)
Structure_get(H, sid, name) ==
    IF name.n \in DOMAIN H.structs[sid].table THEN H.structs[sid].table[name.n] ELSE NotFoundEntry

get_slots_size(H, sid) == H.structs[sid].size

\* a child of s with one more property at the next free offset
ChildWithProperty(s, sid, name, attrs) ==
    LET reuse == Len(s.deleted) > 0
        off == IF reuse THEN s.deleted[Len(s.deleted)] ELSE s.size
    IN [s EXCEPT !.table = (name.n :> [offset |-> off, attrs |-> attrs]) @@ s.table,
                 !.trans = EmptyFn,
                 !.deleted = IF reuse THEN SubSeq(s.deleted, 1, Len(s.deleted) - 1) ELSE s.deleted,
                 !.previous = sid,
                 !.size = IF reuse THEN s.size ELSE s.size + 1]

\* add_property_transition(name, attrs) -> (NewStructure, offset)
add_property_transition(H, sid, name, attrs) ==
    LET s == H.structs[sid]
        tk == <<name.n, attrs>>
    IN IF tk \in DOMAIN s.trans
       THEN [H |-> H, sid |-> s.trans[tk], offset |-> H.structs[s.trans[tk]].table[name.n].offset]
       ELSE LET nid == NewSid(H)
                child == ChildWithProperty(s, sid, name, attrs)
            IN [H |-> [H EXCEPT !.structs =
                          (nid :> child) @@ [H.structs EXCEPT ![sid].trans = (tk :> nid) @@ s.trans]],
                sid |-> nid,
                offset |-> child.table[name.n].offset]

\* faulty variant: the offsets above the freed one move down by one while
\* the slots of the object stay where they are
delete_property_transition_shift(H, sid, name) ==
    LET s == H.structs[sid]
        nid == NewSid(H)
        freed == s.table[name.n].offset
        forked == [s EXCEPT !.table = [k \in (DOMAIN s.table) \ {name.n} |->
                                         IF s.table[k].offset > freed
                                         THEN [s.table[k] EXCEPT !.offset = @ - 1]
                                         ELSE s.table[k]],
                            !.trans = EmptyFn,
                            !.previous = sid,
                            !.unique = TRUE]
    IN [H |-> [H EXCEPT !.structs = (nid :> forked) @@ H.structs], sid |-> nid]

\* delete_property_transition(name): forks to a non-shareable Structure and
\* records the freed offset
delete_property_transition(H, sid, name) ==
    LET s == H.structs[sid]
        nid == NewSid(H)
        forked == [s EXCEPT !.table = [k \in (DOMAIN s.table) \ {name.n} |-> s.table[k]],
                            !.trans = EmptyFn,
                            !.deleted = Append(s.deleted, s.table[name.n].offset),
                            !.previous = sid,
                            !.unique = TRUE]
    IN [H |-> [H EXCEPT !.structs = (nid :> forked) @@ H.structs], sid |-> nid]

\* change_attributes_transition(name, attrs): a sibling shape that differs
\* only in the attributes of name
change_attributes_transition(H, sid, name, attrs) ==
    LET s == H.structs[sid]
        nid == NewSid(H)
        sibling == [s EXCEPT !.table[name.n].attrs = attrs, !.trans = EmptyFn, !.previous = sid]
    IN [H |-> [H EXCEPT !.structs = (nid :> sibling) @@ H.structs], sid |-> nid]

\* change_indexed_transition(): sets the indexed flag on a new Structure
change_indexed_transition(H, sid) ==
    LET s == H.structs[sid]
        nid == NewSid(H)
        ixd == [s EXCEPT !.indexed = TRUE, !.trans = EmptyFn, !.previous = sid]
    IN [H |-> [H EXCEPT !.structs = (nid :> ixd) @@ H.structs], sid |-> nid]

(***************************************************************************)
(* JsObject.  objs maps the address of every allocated object to           *)
(* [class, structure, slots, vector, map, hasMap, dense, length, lenw,     *)
(*  ext, weak]; vector/map/dense/length/lenw are its IndexedElements.      *)
(***************************************************************************)
Tr(kind, n, attrs) == [k |-> kind, n |-> n, attrs |-> attrs]

Resize_keep(seq, n, fill) == seq

\* FixedStorage::resize(n, fill)
Resize(seq, n, fill) ==
    IF n <= Len(seq) THEN SubSeq(seq, 1, n)
    ELSE seq \o [i \in 1..(n - Len(seq)) |-> fill]

\* JsObject::direct(n)
direct(H, o, n) ==
    IF n >= 0 /\ n < Len(H.objs[o].slots) THEN H.objs[o].slots[n + 1] ELSE OutOfBounds

\* faulty variant: the store is lost
direct_mut_lost(H, o, n, v) == H

\* *obj.direct_mut(n) = v
direct_mut(H, o, n, v) ==
    IF n >= 0 /\ n < Len(H.objs[o].slots) THEN [H EXCEPT !.objs[o].slots[n + 1] = v] ELSE H

prototype(H, o) == H.structs[H.objs[o].structure].prototype

is_extensible(H, o) == H.objs[o].ext

set_structure(H, o, sid) == [H EXCEPT !.objs[o].structure = sid]

GetOwnNonIndexedPropertySlotMethod(H, o, name, slot) ==
    LET entry == Structure_get(H, H.objs[o].structure, name)
    IN IF ~entry.attrs.nf
       THEN [found |-> TRUE, slot |-> set_1(slot, direct(H, o, entry.offset), entry.attrs, o)]
       ELSE [found |-> FALSE, slot |-> slot]

RECURSIVE GetNonIndexedPropertySlotMethod(_, _, _, _)
GetNonIndexedPropertySlotMethod(H, o, name, slot) ==
    LET own == GetOwnNonIndexedPropertySlotMethod(H, o, name, slot)
    IN IF own.found THEN own
       ELSE IF prototype(H, o) # NoObj
            THEN GetNonIndexedPropertySlotMethod(H, prototype(H, o), name, slot)
            ELSE [found |-> FALSE, slot |-> slot]

GetOwnIndexedPropertySlotMethod(H, o, index, slot) ==
    LET ob == H.objs[o]
    IN IF ob.dense /\ index < Len(ob.vector)
       THEN IF ob.vector[index + 1] = Empty
            THEN [found |-> FALSE, slot |-> slot]
            ELSE [found |-> TRUE, slot |-> set_1(slot, ob.vector[index + 1], object_data, o)]
       ELSE IF ob.hasMap /\ index < ob.length /\ index \in DOMAIN ob.map
            THEN [found |-> TRUE, slot |-> set_from_slot(slot, ob.map[index], o)]
            ELSE [found |-> FALSE, slot |-> slot]

RECURSIVE has_indexed_property(_, _)
has_indexed_property(H, o) ==
    IF H.structs[H.objs[o].structure].indexed THEN TRUE
    ELSE IF prototype(H, o) # NoObj THEN has_indexed_property(H, prototype(H, o))
    ELSE FALSE

RECURSIVE GetIndexedPropertySlotMethod(_, _, _, _)
GetIndexedPropertySlotMethod(H, o, index, slot) ==
    LET own == GetOwnIndexedPropertySlotMethod(H, o, index, slot)
    IN IF own.found THEN own
       ELSE IF prototype(H, o) # NoObj
            THEN GetIndexedPropertySlotMethod(H, prototype(H, o), index, slot)
            ELSE [found |-> FALSE, slot |-> slot]

get_own_property_slot(H, o, name, slot) ==
    IF name.idx THEN GetOwnIndexedPropertySlotMethod(H, o, name.n, slot)
    ELSE GetOwnNonIndexedPropertySlotMethod(H, o, name, slot)

get_property_slot(H, o, name, slot) ==
    IF name.idx THEN GetIndexedPropertySlotMethod(H, o, name.n, slot)
    ELSE GetNonIndexedPropertySlotMethod(H, o, name, slot)

\* get_property: the descriptor of the slot, or the not-found descriptor
get_property(H, o, name) ==
    LET r == get_property_slot(H, o, name, Slot_new)
    IN IF r.found THEN [value |-> r.slot.value, attrs |-> r.slot.attrs]
       ELSE [value |-> Empty, attrs |-> NotFoundAttr]

can_put_indexed(H, o, index, slot) ==
    LET r == GetIndexedPropertySlotMethod(H, o, index, slot)
    IN IF r.found
       THEN IF r.slot.attrs.acc
            THEN [ok |-> r.slot.value.v = 1, slot |-> r.slot]
            ELSE [ok |-> r.slot.attrs.w, slot |-> r.slot]
       ELSE [ok |-> is_extensible(H, o), slot |-> r.slot]

can_put_non_indexed(H, o, name, slot) ==
    LET r == GetNonIndexedPropertySlotMethod(H, o, name, slot)
    IN IF r.found /\ r.slot.attrs.acc
       THEN [ok |-> r.slot.value.v = 1, slot |-> r.slot]
       ELSE [ok |-> is_extensible(H, o), slot |-> r.slot]

can_put(H, o, name, slot) ==
    IF name.idx THEN can_put_indexed(H, o, name.n, slot) ELSE can_put_non_indexed(H, o, name, slot)

(***************************************************************************)
(* Indexed element stores.  A mutator returns [H, ret, slot, tr]: the new  *)
(* heap, the result ("true" / "false" / "ok" / "panic"), the slot and the  *)
(* Structure transitions it took.                                          *)
(***************************************************************************)
\* IndexedElements::make_sparse: move the vector into the map
make_sparse(H, o) ==
    LET ob == H.objs[o]
        live == {i \in 0..(Len(ob.vector) - 1) : ob.vector[i + 1] # Empty}
        moved == [i \in live |-> [value |-> ob.vector[i + 1], attrs |-> object_data]]
    IN [H EXCEPT !.objs[o].map = moved @@ ob.map, !.objs[o].hasMap = TRUE,
                 !.objs[o].vector = << >>, !.objs[o].dense = FALSE]

\* IndexedElements::make_dense
make_dense(H, o) == [H EXCEPT !.objs[o].dense = TRUE, !.objs[o].hasMap = FALSE, !.objs[o].map = EmptyFn]

\* faulty variant: the vector grows while the object keeps its Structure
define_own_indexe_value_dense_internal_keep(H, o, index, val, absent) ==
    LET ob == H.objs[o]
        stored == IF absent THEN Undef ELSE val
        vec == IF index < Len(ob.vector) THEN ob.vector ELSE Resize(ob.vector, index + 1, Empty)
    IN [H |-> [H EXCEPT !.objs[o].vector = [vec EXCEPT ![index + 1] = stored],
                        !.objs[o].length = IF index >= ob.length THEN index + 1 ELSE ob.length],
        tr |-> << >>]

define_own_indexe_value_dense_internal(H, o, index, val, absent) ==
    LET ob == H.objs[o]
        stored == IF absent THEN Undef ELSE val
        grow == ~(index < Len(ob.vector))
        needTr == grow /\ ~H.structs[ob.structure].indexed
        t == change_indexed_transition(H, ob.structure)
        H1 == IF needTr THEN set_structure(t.H, o, t.sid) ELSE H
        vec == IF grow THEN Resize(ob.vector, index + 1, Empty) ELSE ob.vector
        H2 == [H1 EXCEPT !.objs[o].vector = [vec EXCEPT ![index + 1] = stored],
                         !.objs[o].length = IF index >= ob.length THEN index + 1 ELSE ob.length]
    IN [H |-> H2, tr |-> IF needTr THEN <<Tr("indexed", 0, NotFoundAttr)>> ELSE << >>]

\* the sparse half of define_own_indexed_property_internal
DefineIndexedSparse(H, o, index, desc) ==
    LET ob == H.objs[o]
    IN IF index \in DOMAIN ob.map
       THEN LET acc == is_defined_property_accepted(ob.map[index], desc)
            IN [H |-> IF acc.merge
                      THEN [H EXCEPT !.objs[o].map[index] = StoredSlot_merge(ob.map[index], desc),
                                     !.objs[o].hasMap = TRUE]
                      ELSE [H EXCEPT !.objs[o].hasMap = TRUE],
                ret |-> IF acc.returned THEN "true" ELSE "false",
                tr |-> << >>]
       ELSE IF ~is_extensible(H, o)
       THEN [H |-> [H EXCEPT !.objs[o].hasMap = TRUE], ret |-> "false", tr |-> << >>]
       ELSE LET needTr == ~H.structs[ob.structure].indexed
                t == change_indexed_transition(H, ob.structure)
                H1 == IF needTr THEN set_structure(t.H, o, t.sid) ELSE H
            IN [H |-> [H1 EXCEPT !.objs[o].map = (index :> StoredSlot_new(desc)) @@ ob.map,
                                 !.objs[o].hasMap = TRUE,
                                 !.objs[o].length = IF index >= ob.length THEN index + 1 ELSE ob.length],
                ret |-> "true",
                tr |-> IF needTr THEN <<Tr("indexed", 0, NotFoundAttr)>> ELSE << >>]

define_own_indexed_property_internal(H, o, index, desc) ==
    LET ob == H.objs[o]
    IN IF index >= ob.length /\ ~ob.lenw
       THEN [H |-> H, ret |-> "false", tr |-> << >>]
       ELSE IF ob.dense /\ desc_is_default(desc) /\ index < MAX_VECTOR_SIZE
       THEN LET d == define_own_indexe_value_dense_internal(H, o, index, desc.v, desc.vabsent)
            IN [H |-> d.H, ret |-> "true", tr |-> d.tr]
       ELSE IF ob.dense /\ ~desc_is_default(desc) /\ is_absent_descriptor(desc)
               /\ index < Len(ob.vector) /\ ob.vector[index + 1] # Empty
       THEN [H |-> IF desc.vabsent THEN H ELSE [H EXCEPT !.objs[o].vector[index + 1] = desc.v],
             ret |-> "true", tr |-> << >>]
       ELSE IF ob.dense /\ ~desc_is_default(desc) /\ index < MAX_VECTOR_SIZE
       THEN DefineIndexedSparse(make_sparse(H, o), o, index, desc)
       ELSE DefineIndexedSparse(H, o, index, desc)

DefineOwnIndexedPropertySlotMethod(H, o, index, desc, slot) ==
    LET r == define_own_indexed_property_internal(H, o, index, desc)
    IN [H |-> r.H, ret |-> r.ret, slot |-> slot, tr |-> r.tr]

PutIndexedSlotMethod(H, o, index, val, slot) ==
    LET ob == H.objs[o]
    IN IF index < MAX_VECTOR_SIZE /\ ob.dense
          /\ (prototype(H, o) = NoObj \/ has_indexed_property(H, prototype(H, o)))
       THEN LET d == define_own_indexe_value_dense_internal(H, o, index, val, FALSE)
            IN [H |-> d.H, ret |-> "ok",
                slot |-> mark_put_result(slot, "IndexedOptimized", index), tr |-> d.tr]
       ELSE LET cp == can_put_indexed(H, o, index, slot)
            IN IF ~cp.ok THEN [H |-> H, ret |-> "ok", slot |-> cp.slot, tr |-> << >>]
               ELSE IF ~slot_is_not_found(cp.slot) /\ cp.slot.base = o /\ ~cp.slot.attrs.acc
               THEN LET r == DefineOwnIndexedPropertySlotMethod(H, o, index, DescUndef(val), cp.slot)
                    IN [r EXCEPT !.ret = "ok"]
               ELSE IF ~slot_is_not_found(cp.slot) /\ cp.slot.attrs.acc
               THEN [H |-> H, ret |-> "panic", slot |-> cp.slot, tr |-> << >>]
               ELSE LET r == DefineOwnIndexedPropertySlotMethod(H, o, index, DescWCE(val), cp.slot)
                    IN [r EXCEPT !.ret = "ok"]

(***************************************************************************)
(* Named properties.                                                       *)
(***************************************************************************)
\* faulty variant: every add allocates a child Structure of its own, without
\* consulting or filling the transition table
AddOwnProperty_uncached(H, o, name, attrs, value, slot) ==
    LET sid == H.objs[o].structure
        nid == NewSid(H)
        child == ChildWithProperty(H.structs[sid], sid, name, attrs)
        H1 == set_structure([H EXCEPT !.structs = (nid :> child) @@ H.structs], o, nid)
        H2 == [H1 EXCEPT !.objs[o].slots = Resize(@, child.size, Empty)]
    IN [H |-> direct_mut(H2, o, child.table[name.n].offset, value),
        slot |-> mark_put_result(slot, "New", child.table[name.n].offset),
        tr |-> <<Tr("add", name.n, attrs)>>]

\* take the add transition, move the object to the new Structure, resize
\* slots to its slot count and store the value at the returned offset
AddOwnProperty(H, o, name, attrs, value, slot) ==
    LET t == add_property_transition(H, H.objs[o].structure, name, attrs)
        H1 == set_structure(t.H, o, t.sid)
        H2 == [H1 EXCEPT !.objs[o].slots = Resize(@, get_slots_size(H1, t.sid), Empty)]
    IN [H |-> direct_mut(H2, o, t.offset, value),
        slot |-> mark_put_result(slot, "New", t.offset),
        tr |-> <<Tr("add", name.n, attrs)>>]

\* section 8.12.9 [[DefineOwnProperty]]
DefineOwnNonIndexedPropertySlotMethod(H, o, name, desc, slot) ==
    LET slot1 == IF ~slot.used THEN get_own_property_slot(H, o, name, slot).slot ELSE slot
    IN IF ~slot_is_not_found(slot1) /\ slot1.base = o
       THEN LET acc == is_defined_property_accepted([value |-> slot1.value, attrs |-> slot1.attrs], desc)
                merged == slot_merge(slot1, desc)
                ret == IF acc.returned THEN "true" ELSE "false"
            IN IF ~acc.merge THEN [H |-> H, ret |-> ret, slot |-> slot1, tr |-> << >>]
               ELSE IF slot_has_offset(slot1)
               THEN LET changed == slot1.attrs # merged.attrs
                        t == change_attributes_transition(H, H.objs[o].structure, name, merged.attrs)
                        H1 == IF changed THEN set_structure(t.H, o, t.sid) ELSE H
                    IN [H |-> direct_mut(H1, o, slot1.offset, merged.value),
                        ret |-> ret,
                        slot |-> mark_put_result(merged, "Replace", slot1.offset),
                        tr |-> IF changed THEN <<Tr("attr", name.n, merged.attrs)>> ELSE << >>]
               ELSE LET a == AddOwnProperty(H, o, name, merged.attrs, merged.value, merged)
                    IN [H |-> a.H, ret |-> ret, slot |-> a.slot, tr |-> a.tr]
       ELSE IF ~is_extensible(H, o)
       THEN [H |-> H, ret |-> "false", slot |-> slot1, tr |-> << >>]
       ELSE LET stored == StoredSlot_new(desc)
                a == AddOwnProperty(H, o, name, stored.attrs, stored.value, slot1)
            IN [H |-> a.H, ret |-> "true", slot |-> a.slot, tr |-> a.tr]

PutNonIndexedSlotMethod(H, o, name, val, slot) ==
    LET cp == can_put(H, o, name, slot)
    IN IF ~cp.ok THEN [H |-> H, ret |-> "ok", slot |-> cp.slot, tr |-> << >>]
       ELSE IF ~slot_is_not_found(cp.slot) /\ cp.slot.base = o /\ ~cp.slot.attrs.acc
       THEN LET r == DefineOwnNonIndexedPropertySlotMethod(H, o, name, DescUndef(val), cp.slot)
            IN [r EXCEPT !.ret = "ok"]
       ELSE IF ~slot_is_not_found(cp.slot) /\ cp.slot.attrs.acc
       THEN [H |-> H, ret |-> "panic", slot |-> cp.slot, tr |-> << >>]
       ELSE LET r == DefineOwnNonIndexedPropertySlotMethod(H, o, name, DescWCE(val), cp.slot)
            IN [r EXCEPT !.ret = "ok"]

put_slot(H, o, name, val, slot) ==
    IF name.idx THEN PutIndexedSlotMethod(H, o, name.n, val, slot)
    ELSE PutNonIndexedSlotMethod(H, o, name, val, slot)

\* JsObject::put
put(H, o, name, val) == put_slot(H, o, name, val, Slot_new)

define_own_property_slot(H, o, name, desc, slot) ==
    IF name.idx
    THEN LET r == define_own_indexed_property_internal(H, o, name.n, desc)
         IN [H |-> r.H, ret |-> r.ret, slot |-> slot, tr |-> r.tr]
    ELSE DefineOwnNonIndexedPropertySlotMethod(H, o, name, desc, slot)

\* JsObject::define_own_property
define_own_property(H, o, name, desc) == define_own_property_slot(H, o, name, desc, Slot_new)

DeleteNonIndexedMethod(H, o, name) ==
    LET r == get_own_property_slot(H, o, name, Slot_new)
    IN IF ~r.found THEN [H |-> H, ret |-> "true", tr |-> << >>]
       ELSE IF ~r.slot.attrs.c THEN [H |-> H, ret |-> "false", tr |-> << >>]
       ELSE LET entry == Structure_get(H, H.objs[o].structure, name)
            IN IF ~slot_has_offset(r.slot) /\ entry.attrs.nf
               THEN [H |-> H, ret |-> "true", tr |-> << >>]
               ELSE LET offset == IF slot_has_offset(r.slot) THEN r.slot.offset ELSE entry.offset
                        t == delete_property_transition(H, H.objs[o].structure, name)
                    IN [H |-> direct_mut(set_structure(t.H, o, t.sid), o, offset, Empty),
                        ret |-> "true",
                        tr |-> <<Tr("delete", name.n, NotFoundAttr)>>]

\* faulty variant: the entry of the map is removed whatever its attributes
delete_indexed_internal_any(H, o, index) ==
    LET ob == H.objs[o]
    IN IF ob.length <= index \/ ~ob.hasMap \/ index \notin DOMAIN ob.map
       THEN [H |-> H, ret |-> "true", tr |-> << >>]
       ELSE [H |-> [H EXCEPT !.objs[o].map = [i \in (DOMAIN ob.map) \ {index} |-> ob.map[i]]],
             ret |-> "true", tr |-> << >>]

\* JsObject::delete_indexed_internal(index, throwable = false)
delete_indexed_internal(H, o, index) ==
    LET ob == H.objs[o]
        rest == [i \in (DOMAIN ob.map) \ {index} |-> ob.map[i]]
        removed == [H EXCEPT !.objs[o].map = rest]
    IN IF ob.length <= index THEN [H |-> H, ret |-> "true", tr |-> << >>]
       ELSE IF ob.dense /\ index < Len(ob.vector)
       THEN [H |-> [H EXCEPT !.objs[o].vector[index + 1] = Empty], ret |-> "true", tr |-> << >>]
       ELSE IF ob.dense /\ index < MAX_VECTOR_SIZE
       THEN [H |-> H, ret |-> "true", tr |-> << >>]
       ELSE IF ~ob.hasMap \/ index \notin DOMAIN ob.map
       THEN [H |-> H, ret |-> "true", tr |-> << >>]
       ELSE IF ~ob.map[index].attrs.c
       THEN [H |-> H, ret |-> "false", tr |-> << >>]
       ELSE [H |-> IF DOMAIN rest = {} THEN make_dense(removed, o) ELSE removed,
             ret |-> "true", tr |-> << >>]

\* JsObject::DeleteIndexedMethod: every class of the model has the default
\* own indexed lookup in its method table
DeleteIndexedMethod(H, o, index) == delete_indexed_internal(H, o, index)

\* JsObject::delete(name, throwable = false)
delete(H, o, name) ==
    IF name.idx THEN DeleteIndexedMethod(H, o, name.n) ELSE DeleteNonIndexedMethod(H, o, name)

(***************************************************************************)
(* Heap cells, weak slots and the collector.  A cell is named by its kind  *)
(* and address.  weak maps the address of every non-free WeakSlot to       *)
(* [state, target].                                                        *)
(***************************************************************************)
MaxWeak == 2

ObjCell(o) == [kind |-> "obj", id |-> o]
StructCell(s) == [kind |-> "struct", id |-> s]
NullCell == [kind |-> "null", id |-> 0]

NewOid(H) == LowestFree(DOMAIN H.objs, MaxObjs)
NewWid(H) == LowestFree(DOMAIN H.weak, MaxWeak)

\* Heap::make_weak(cell): a new slot that points at cell
make_weak(H, cell) ==
    [H |-> [H EXCEPT !.weak = (NewWid(H) :> [state |-> "unmarked", target |-> cell]) @@ H.weak],
     wid |-> NewWid(H)]

\* WeakRef::upgrade: None (NullCell) when the slot's value is null
upgrade(H, wid) == H.weak[wid].target

ValueCells(vals) == {ObjCell(x.v) : x \in {y \in vals : y.t = "object"}}

SeqRange(s) == {s[i] : i \in 1..Len(s)}

\* a trace that visits the target of the slot as a strong edge
WeakRefTrace_strong(H, o) ==
    IF H.objs[o].class = "WeakRef" /\ H.objs[o].weak \in DOMAIN H.weak
    THEN {H.weak[H.objs[o].weak].target} \ {NullCell}
    ELSE {}

\* JsWeakRef trace: visit_weak on the slot, no edge to the target
WeakRefTrace(H, o) == {}

\* HeapObject for JsObject::visit_children, and the class trace
JsObjectTrace(H, o) ==
    LET ob == H.objs[o]
    IN ValueCells(SeqRange(ob.slots))
       \cup ValueCells(SeqRange(ob.vector))
       \cup ValueCells({ob.map[i].value : i \in DOMAIN ob.map})
       \cup {StructCell(ob.structure)}
       \cup (IF ob.class = "WeakRef" THEN WeakRefTrace(H, o) ELSE {})

\* a Structure traces previous, prototype and its transitions
StructureTrace(H, sid) ==
    LET s == H.structs[sid]
    IN (IF s.previous # NoStruct THEN {StructCell(s.previous)} ELSE {})
       \cup (IF s.prototype # NoObj THEN {ObjCell(s.prototype)} ELSE {})
       \cup {StructCell(s.trans[k]) : k \in DOMAIN s.trans}

TraceCell(H, c) ==
    IF c.kind = "obj" THEN JsObjectTrace(H, c.id) ELSE StructureTrace(H, c.id)

IsAllocated(H, c) ==
    \/ c.kind = "obj" /\ c.id \in DOMAIN H.objs
    \/ c.kind = "struct" /\ c.id \in DOMAIN H.structs

\* steps 2-3: the cells that end up black
RECURSIVE MarkFrom(_, _, _)
MarkFrom(H, grey, black) ==
    IF grey = {} THEN black
    ELSE LET c == CHOOSE x \in grey : TRUE
             next == {d \in TraceCell(H, c) : IsAllocated(H, d)} \ (black \cup grey)
         IN MarkFrom(H, (grey \ {c}) \cup next, black \cup {c})

\* one collection: mark from the roots, clear the weak slots whose target is
\* not black, sweep the white cells
Collect(H, rootset) ==
    LET black == MarkFrom(H, {c \in rootset : IsAllocated(H, c)}, {})
        liveObjs == {o \in DOMAIN H.objs : ObjCell(o) \in black}
        liveStructs == {s \in DOMAIN H.structs : StructCell(s) \in black}
    IN [objs |-> [o \in liveObjs |-> H.objs[o]],
        structs |-> [s \in liveStructs |-> H.structs[s]],
        weak |-> [w \in DOMAIN H.weak |->
                    IF H.weak[w].target \in black
                    THEN [state |-> "mark", target |-> H.weak[w].target]
                    ELSE [state |-> "unmarked", target |-> NullCell]]]

\* JsObject::new(structure, class, tag)
JsObject_new(H, sid, class) ==
    LET ob == [class |-> class, structure |-> sid,
               slots |-> [i \in 1..get_slots_size(H, sid) |-> Empty],
               vector |-> << >>, map |-> EmptyFn, hasMap |-> FALSE, dense |-> TRUE,
               length |-> 0, lenw |-> TRUE, ext |-> TRUE, weak |-> 0]
    IN [H |-> [H EXCEPT !.objs = (NewOid(H) :> ob) @@ H.objs], oid |-> NewOid(H)]

(***************************************************************************)
(* State of the object heap.                                               *)
(*   objs, structs, weak : the heap                                        *)
(*   roots               : the cells kept on the stack (keep_on_stack!)    *)
(*   lastPut             : the put that was just made, until the next      *)
(*                         mutation (a collection leaves it in place)      *)
(*   chain               : per object, the Structure it was created with,  *)
(*                         the add transitions it took and their offsets,  *)
(*                         and whether it took no other transition         *)
(*   nops                : number of operations made                       *)
(***************************************************************************)
VARIABLES objs, structs, weak, roots, lastPut, chain, nops

heapVars == <<objs, structs, weak, roots>>
objVars == <<objs, structs, weak, roots, lastPut, chain, nops>>

Heap == [objs |-> objs, structs |-> structs, weak |-> weak]

SetHeap(H) == objs' = H.objs /\ structs' = H.structs /\ weak' = H.weak

NoPut ==
    [valid |-> FALSE, o |-> NoObj, k |-> KeySym(0), v |-> Empty, gc |-> FALSE,
     done |-> FALSE, canput |-> FALSE, ext |-> FALSE,
     pre |-> [value |-> Empty, attrs |-> NotFoundAttr], own |-> FALSE]

NewChain(sid) == [start |-> sid, adds |-> << >>, offs |-> << >>, pure |-> TRUE]

RECURSIVE AllAdds(_)
AllAdds(tr) == tr = << >> \/ (tr[1].k = "add" /\ AllAdds(Tail(tr)))

\* the chain of o after an operation that took the transitions tr
Extend(c, tr, H2, o) ==
    IF tr = << >> THEN c
    ELSE IF c.pure /\ AllAdds(tr)
    THEN [c EXCEPT !.adds = @ \o [i \in 1..Len(tr) |-> <<tr[i].n, tr[i].attrs>>],
                   !.offs = @ \o [i \in 1..Len(tr) |->
                                    Structure_get(H2, H2.objs[o].structure, KeySym(tr[i].n)).offset]]
    ELSE [c EXCEPT !.pure = FALSE]

LiveObjs == {o \in DOMAIN objs : ObjCell(o) \in roots}

\* descriptors handed to define_own_property
DefineDescs ==
    {DescNone(Int32(1)), AccessorDescriptor(TRUE, "T", "T"), AccessorDescriptor(FALSE, "T", "T")}

\* the lookup says a put of k on o is accepted: o is extensible and k is
\* absent or a writable data property
PutAccepted(H, o, k) ==
    LET r == get_property_slot(H, o, k, Slot_new)
    IN is_extensible(H, o) /\ (~r.found \/ (~r.slot.attrs.acc /\ r.slot.attrs.w))

\* vm with two Structures (one per prototype level), an object and its
\* prototype object, all kept on the stack
ObjInit ==
    /\ structs = (1 :> Structure_new(2, FALSE, FALSE)) @@ (2 :> Structure_new(NoObj, FALSE, FALSE))
    /\ objs = LET H0 == [objs |-> EmptyFn, structs |-> structs, weak |-> EmptyFn]
                  H1 == JsObject_new(H0, 1, "Object").H
              IN JsObject_new(H1, 2, "Object").H.objs
    /\ weak = EmptyFn
    /\ roots = {ObjCell(1), ObjCell(2), StructCell(1), StructCell(2)}
    /\ lastPut = NoPut
    /\ chain = [o \in {1, 2} |-> NewChain(o)]
    /\ nops = 0

CanAllocStruct == Cardinality(DOMAIN structs) + 2 <= MaxStructs

\* obj.put(vm, k, v, false)
Put(o, k, v) ==
    /\ o \in LiveObjs
    /\ CanAllocStruct
    /\ \E r \in {put(Heap, o, k, v)} :
          /\ r.ret # "panic"
          /\ SetHeap(r.H)
          /\ lastPut' = [valid |-> PutAccepted(Heap, o, k), o |-> o, k |-> k, v |-> v, gc |-> FALSE,
                         done |-> TRUE, canput |-> can_put(Heap, o, k, Slot_new).ok,
                         ext |-> is_extensible(Heap, o),
                         pre |-> get_property(Heap, o, k),
                         own |-> get_own_property_slot(Heap, o, k, Slot_new).found]
          /\ chain' = [chain EXCEPT ![o] = Extend(@, r.tr, r.H, o)]
    /\ nops' = nops + 1
    /\ UNCHANGED roots

\* obj.define_own_property(vm, k, desc, false)
Define(o, k, desc) ==
    /\ o \in LiveObjs
    /\ CanAllocStruct
    /\ \E r \in {define_own_property(Heap, o, k, desc)} :
          /\ SetHeap(r.H)
          /\ chain' = [chain EXCEPT ![o] = Extend(@, r.tr, r.H, o)]
    /\ lastPut' = NoPut
    /\ nops' = nops + 1
    /\ UNCHANGED roots

\* obj.delete(vm, k, false)
Delete(o, k) ==
    /\ o \in LiveObjs
    /\ CanAllocStruct
    /\ \E r \in {delete(Heap, o, k)} :
          /\ SetHeap(r.H)
          /\ chain' = [chain EXCEPT ![o] = Extend(@, r.tr, r.H, o)]
    /\ lastPut' = NoPut
    /\ nops' = nops + 1
    /\ UNCHANGED roots

\* JsObject::new(vm, structure, class, tag) on a Structure kept on the stack
NewObject(sid) ==
    /\ StructCell(sid) \in roots
    /\ Cardinality(DOMAIN objs) < MaxObjs
    /\ \E r \in {JsObject_new(Heap, sid, "Object")} :
          /\ SetHeap(r.H)
          /\ roots' = roots \cup {ObjCell(r.oid)}
          /\ chain' = (r.oid :> NewChain(sid)) @@ chain
    /\ lastPut' = NoPut
    /\ nops' = nops + 1

\* Object.preventExtensions(o): the extensible flag of o is cleared
PreventExtensions(o) ==
    /\ o \in LiveObjs
    /\ objs[o].ext
    /\ objs' = [objs EXCEPT ![o].ext = FALSE]
    /\ lastPut' = NoPut
    /\ nops' = nops + 1
    /\ UNCHANGED <<structs, weak, roots, chain>>

\* the handle of o goes out of scope
Unroot(o) ==
    /\ ObjCell(o) \in roots
    /\ roots' = roots \ {ObjCell(o)}
    /\ UNCHANGED <<objs, structs, weak, lastPut, chain, nops>>

\* a collection that marks from rootset
GcFrom(rootset) ==
    /\ \E H \in {Collect(Heap, rootset)} :
          /\ SetHeap(H)
          /\ chain' = [o \in DOMAIN H.objs |-> chain[o]]
    /\ lastPut' = [lastPut EXCEPT !.gc = lastPut.valid]
    /\ UNCHANGED <<roots, nops>>

\* vm.gc(false)
Gc == GcFrom(roots)

\* the handle of Structure sid goes out of scope
UnrootStructure(sid) ==
    /\ StructCell(sid) \in roots
    /\ roots' = roots \ {StructCell(sid)}
    /\ UNCHANGED <<objs, structs, weak, lastPut, chain, nops>>

(***************************************************************************)
(* Claims on the object model.                                             *)
(***************************************************************************)
\* C1: after an accepted put(o, k, v) (o extensible, k absent or a writable
\* data property), get_property(o, k) is a data descriptor with value v, also
\* when a collection ran in between, as long as o is kept on the stack
C1_PutThenGet ==
    (lastPut.valid /\ ObjCell(lastPut.o) \in roots) =>
        LET d == get_property(Heap, lastPut.o, lastPut.k)
        IN ~d.attrs.nf /\ ~d.attrs.acc /\ d.value = lastPut.v

\* an indexed put that moved o off its first Structure, then a collection
C1_Witness ==
    /\ lastPut.valid /\ lastPut.gc /\ lastPut.k.idx
    /\ ObjCell(lastPut.o) \in roots
    /\ objs[lastPut.o].structure # chain[lastPut.o].start
    /\ get_property(Heap, lastPut.o, lastPut.k).value = lastPut.v

\* C8: two objects created with the same Structure that took the same add
\* transitions (key, attributes) in the same order, and no other transition,
\* have the same Structure and got the same offset for every key
C8_AddTransitionIdempotent ==
    \A a, b \in DOMAIN objs :
        (/\ chain[a].pure /\ chain[b].pure
         /\ chain[a].start = chain[b].start
         /\ chain[a].adds = chain[b].adds)
        => (objs[a].structure = objs[b].structure /\ chain[a].offs = chain[b].offs)

\* two distinct objects that each added two different keys in the same order
C8_Witness ==
    \E a, b \in DOMAIN objs :
        /\ a # b
        /\ chain[a].pure /\ chain[b].pure
        /\ chain[a].start = chain[b].start
        /\ chain[a].adds = chain[b].adds
        /\ Len(chain[a].adds) = 2
        /\ chain[a].adds[1][1] # chain[a].adds[2][1]
        /\ objs[a].structure = objs[b].structure

\* what the rule of the property write check gives for the last put: the
\* writable attribute of a data property the name resolves to, the presence
\* of a setter for an accessor, the extensible flag when the name is not
\* found
CanPutRule ==
    IF lastPut.pre.attrs.nf THEN lastPut.ext
    ELSE IF lastPut.pre.attrs.acc THEN lastPut.pre.value.v = 1
    ELSE lastPut.pre.attrs.w

\* C17: can_put on a named key follows the rule above (as can_put_indexed
\* does on an index); a put to a non-writable data property leaves the stored
\* value unchanged, and a put to a writable own data property is stored even
\* when the object is not extensible
C17_CanPutNonIndexed ==
    (lastPut.done /\ ~lastPut.k.idx /\ ~lastPut.gc /\ lastPut.o \in DOMAIN objs) =>
        /\ lastPut.canput = CanPutRule
        /\ (~lastPut.pre.attrs.nf /\ ~lastPut.pre.attrs.acc /\ ~lastPut.pre.attrs.w)
              => get_property(Heap, lastPut.o, lastPut.k) = lastPut.pre
        /\ (lastPut.own /\ ~lastPut.pre.attrs.acc /\ lastPut.pre.attrs.w)
              => get_property(Heap, lastPut.o, lastPut.k).value = lastPut.v

\* the value a program of the layout runs stores under key k, and the
\* descriptors it defines k with: the value tells the key
ValOf(k) == Int32(k.n)
LayoutDescs(k) == {DescNone(ValOf(k)), DataDescriptor(ValOf(k), "T", "F", "T")}

\* o stores the value of key p at slot offset i
StoredAt(o, p, i) == direct(Heap, o, i) = ValOf(p)

\* C14: two objects that have the same Structure store every property of
\* that Structure at the same slot offset, the one the Structure records,
\* after any interleaving of adds, attribute changes and deletes
C14_SameStructureSameOffset ==
    \A a, b \in LiveObjs :
        objs[a].structure = objs[b].structure =>
            \A p \in NamedKeys :
                ~Structure_get(Heap, objs[a].structure, p).attrs.nf =>
                    \E i \in {Structure_get(Heap, objs[a].structure, p).offset} :
                        StoredAt(a, p, i) /\ StoredAt(b, p, i)

\* two objects share a Structure they both reached by a change of the
\* attributes of a key they had added before, and a further key was added
\* to none or one of them
C14_Witness ==
    \E a, b \in LiveObjs :
        /\ a # b
        /\ objs[a].structure = objs[b].structure
        /\ structs[objs[a].structure].previous # NoStruct
        /\ \E p \in NamedKeys :
              /\ ~Structure_get(Heap, structs[objs[a].structure].previous, p).attrs.nf
              /\ ~Structure_get(Heap, objs[a].structure, p).attrs.nf
              /\ ~Structure_get(Heap, objs[a].structure, p).attrs.w
              /\ StoredAt(a, p, Structure_get(Heap, objs[a].structure, p).offset)
              /\ StoredAt(b, p, Structure_get(Heap, objs[a].structure, p).offset)

\* C31: every slot offset in the property table of the Structure of an object
\* is smaller than the length of the slots of the object, after any
\* interleaving of adds, attribute changes and deletes
C31_OffsetsWithinSlots ==
    \A o \in LiveObjs : \A p \in NamedKeys :
        ~Structure_get(Heap, objs[o].structure, p).attrs.nf =>
            /\ Structure_get(Heap, objs[o].structure, p).offset >= 0
            /\ Structure_get(Heap, objs[o].structure, p).offset < Len(objs[o].slots)

\* an object that deleted a key, added another one at the freed offset and
\* then changed the attributes of a key, next to an object created later
C31_Witness ==
    \E o \in LiveObjs : \E p, q \in NamedKeys :
        /\ p # q
        /\ ~Structure_get(Heap, objs[o].structure, p).attrs.nf
        /\ ~Structure_get(Heap, objs[o].structure, q).attrs.nf
        /\ ~Structure_get(Heap, objs[o].structure, q).attrs.w
        /\ structs[objs[o].structure].unique
        /\ Len(objs[o].slots) = 2
        /\ \E a \in LiveObjs : Len(objs[a].slots) = 0

(***************************************************************************)
(* Arithmetic (OP_ADD).  A number is kept as two 16-bit halves,            *)
(* value = hi * 2^16 + lo with 0 <= lo < 2^16, so that int32 keeps its     *)
(* width: an int32 has -2^15 <= hi < 2^15.                                 *)
(*   astack  : the operand stack of the frame                              *)
(*   profile : the ArithProfile of the ADD site                            *)
(*   lastAdd : operands, result and earlier overflow bit of the last ADD   *)
(*   everOv  : some ADD of two int32 had a sum outside int32               *)
(*   nadds   : number of ADDs executed                                     *)
(***************************************************************************)
VARIABLES astack, profile, lastAdd, everOv, nadds

arithVars == <<astack, profile, lastAdd, everOv, nadds>>

MaxArithStack == 2
MaxAdds == 2

Half == 2 ^ 16

Num(hi, lo) == [hi |-> hi, lo |-> lo]
I32(hi, lo) == [t |-> "int32", hi |-> hi, lo |-> lo]
F64(n) == [t |-> "double", hi |-> n.hi, lo |-> n.lo]

\* the mathematical sum
NumAdd(a, b) == Num(a.hi + b.hi + ((a.lo + b.lo) \div Half), (a.lo + b.lo) % Half)

FitsInt32(n) == n.hi >= 0 - (2 ^ 15) /\ n.hi < 2 ^ 15

\* i32::wrapping_add
wrapping_add(a, b) ==
    LET n == NumAdd(a, b)
    IN [some |-> TRUE, val |-> Num(((n.hi + (2 ^ 15)) % Half) - (2 ^ 15), n.lo)]

\* i32::checked_add
checked_add(a, b) ==
    LET n == NumAdd(a, b)
    IN IF FitsInt32(n) THEN [some |-> TRUE, val |-> n] ELSE [some |-> FALSE, val |-> n]

is_int32(x) == x.t = "int32"
is_number(x) == x.t = "int32" \/ x.t = "double"
get_int32(x) == Num(x.hi, x.lo)
\* as f64: exact for every int32
get_number(x) == Num(x.hi, x.lo)
encode_int32(n) == I32(n.hi, n.lo)
\* JsValue::new(f64)
JsValue_new(n) == F64(n)

NewProfile == [overflow |-> FALSE, lhs |-> {}, rhs |-> {}]
\* ArithProfile::observe_lhs_and_rhs
observe_lhs_and_rhs(p, lhs, rhs) == [p EXCEPT !.lhs = @ \cup {lhs.t}, !.rhs = @ \cup {rhs.t}]
set_observed_int32_overflow(p) == [p EXCEPT !.overflow = TRUE]

\* the int32 operands at and next to the ends of the range
ArithInputs ==
    {I32(0 - (2 ^ 15), 0), I32(0 - (2 ^ 15), 1), I32(0 - 1, Half - 1), I32(0, 0), I32(0, 1),
     I32((2 ^ 15) - 1, Half - 2), I32((2 ^ 15) - 1, Half - 1)}

NoAdd == [valid |-> FALSE, lhs |-> I32(0, 0), rhs |-> I32(0, 0), before |-> FALSE]

\* OP_ADD on two numbers: [stack, profile]
OpAdd(stack, p) ==
    LET lhs == stack[Len(stack)]
        rhs == stack[Len(stack) - 1]
        rest == SubSeq(stack, 1, Len(stack) - 2)
        p1 == observe_lhs_and_rhs(p, lhs, rhs)
        sum == checked_add(get_int32(lhs), get_int32(rhs))
    IN IF is_int32(lhs) /\ is_int32(rhs) /\ sum.some
       THEN [stack |-> Append(rest, encode_int32(sum.val)), profile |-> p1]
       ELSE [stack |-> Append(rest, JsValue_new(NumAdd(get_number(lhs), get_number(rhs)))),
             profile |-> IF is_int32(lhs) /\ is_int32(rhs)
                         THEN set_observed_int32_overflow(p1) ELSE p1]

ArithInit ==
    /\ astack = << >>
    /\ profile = NewProfile
    /\ lastAdd = NoAdd
    /\ everOv = FALSE
    /\ nadds = 0

\* OP_PUSH_INT
PushInt(x) ==
    /\ Len(astack) < MaxArithStack
    /\ astack' = Append(astack, x)
    /\ lastAdd' = NoAdd
    /\ UNCHANGED <<profile, everOv, nadds>>

\* OP_POP
PopValue ==
    /\ Len(astack) > 0
    /\ astack' = SubSeq(astack, 1, Len(astack) - 1)
    /\ lastAdd' = NoAdd
    /\ UNCHANGED <<profile, everOv, nadds>>

\* OP_ADD
Add ==
    /\ Len(astack) >= 2
    /\ nadds < MaxAdds
    /\ nadds' = nadds + 1
    /\ LET r == OpAdd(astack, profile)
           lhs == astack[Len(astack)]
           rhs == astack[Len(astack) - 1]
       IN /\ astack' = r.stack
          /\ profile' = r.profile
          /\ lastAdd' = [valid |-> TRUE, lhs |-> lhs, rhs |-> rhs, before |-> profile.overflow]
          /\ everOv' = (everOv \/ (is_int32(lhs) /\ is_int32(rhs)
                                    /\ ~FitsInt32(NumAdd(get_int32(lhs), get_int32(rhs)))))

\* C10: ADD of two int32 pushes the int32 sum when it fits in int32 and the
\* double of the mathematical sum otherwise, and the overflow bit of the
\* site's profile is set by exactly the ADDs that overflow
C10_AddInt32 ==
    /\ profile.overflow = everOv
    /\ (lastAdd.valid /\ is_int32(lastAdd.lhs) /\ is_int32(lastAdd.rhs)) =>
        LET n == NumAdd(get_int32(lastAdd.lhs), get_int32(lastAdd.rhs))
            top == astack[Len(astack)]
        IN IF FitsInt32(n)
           THEN top = I32(n.hi, n.lo) /\ profile.overflow = lastAdd.before
           ELSE top = F64(n) /\ profile.overflow

\* an ADD of two int32 that overflowed at a site that had not overflowed
C10_Witness ==
    /\ lastAdd.valid /\ is_int32(lastAdd.lhs) /\ is_int32(lastAdd.rhs)
    /\ ~FitsInt32(NumAdd(get_int32(lastAdd.lhs), get_int32(lastAdd.rhs)))
    /\ ~lastAdd.before
    /\ astack[Len(astack)].t = "double"

(***************************************************************************)
(* Interpreter: call frames, calls, returns and exception unwinding.  The  *)
(* contents of the value stack are left out: a frame is known by its sp,   *)
(* and what an instruction reads from the stack (the callee of a CALL) is  *)
(* an input of the step.                                                   *)
(*   frames    : rt.stack, the frame stack, top last; the prev of a frame  *)
(*               is the frame below it                                     *)
(*   cur       : the frame eval is executing (its local `frame`)           *)
(*   ef        : the frame eval_internal made (its local `frame`)          *)
(*   mode      : "idle", "run", "done" (Ok returned), "err" (Err returned) *)
(*   lastThrow : what the last raise found and did, until the next step    *)
(*   lastRet   : the caller and the sp it should have after the last       *)
(*               return of a callee, until the next step                   *)
(***************************************************************************)
VARIABLES frames, cur, ef, mode, lastThrow, lastRet

vmVars == <<frames, cur, ef, mode, lastThrow, lastRet>>

MaxFrames == 3
MaxSp == 3
MaxTry == 1
MaxArgc == 1

\* what OP_CALL finds in the callee slot
CalleeKinds == {"vm function", "native function", "not callable"}

\* catch addresses: the catch block of the n-th open try of the frame at fr
IpNone == [fr |-> 0, n |-> 0]
IpCatch(fr, n) == [fr |-> fr, n |-> n]

\* Stack::new_frame: a frame on top of the frame stack whose sp and limit
\* are the cursor of the value stack
new_frame(cursor) ==
    [sp |-> cursor, limit |-> cursor, ctor |-> FALSE, exit_on_return |-> FALSE,
     try_stack |-> << >>, floor |-> cursor, caller |-> 0, s0 |-> 0]

\* faulty variant: one frame more than the capacity is accepted
StackFull_late(fs) == Len(fs) > MaxFrames

\* Stack::new_frame gives None: the frame stack holds MaxFrames frames
StackFull(fs) == Len(fs) >= MaxFrames

\* CallFrame::push / CallFrame::pop on frame i
FramePush(fs, i) == [fs EXCEPT ![i].sp = @ + 1]
FramePop(fs, i) == [fs EXCEPT ![i].sp = @ - 1]

\* the lowest sp the code of frame f pops down to: the sp it started with,
\* or the sp at its innermost open try
Floor(f) == IF f.try_stack # << >> THEN f.try_stack[Len(f.try_stack)].sp ELSE f.floor

NoEntry == [ip |-> IpNone, sp |-> 0]
NoThrow ==
    [valid |-> FALSE, thrower |-> 0, spBefore |-> 0, tryBefore |-> << >>, nearest |-> 0,
     caught |-> FALSE, ran |-> NoEntry, catcher |-> 0,
     op |-> "none", err |-> Empty, full |-> FALSE, fsAtPush |-> << >>, fsAfterPush |-> << >>]

\* a step that asked Stack::new_frame for a frame and got none: full says
\* that the frame stack was at its capacity, fs is the frame stack before
\* the request and after it
PushSeen(rec, op, err, fs, after) ==
    [rec EXCEPT !.op = op, !.err = err, !.full = StackFull(fs), !.fsAtPush = fs,
                !.fsAfterPush = after]

\* an exception that does not come from a request for a frame
NoPush == [op |-> "none", err |-> Thrown, fs |-> << >>]
FailedPush(op, fs) == [op |-> op, err |-> RangeError, fs |-> fs]
NoRet == [valid |-> FALSE, caller |-> 0, expect |-> 0]

\* the nearest frame at or below i that has an open try, 0 when there is none
\* up to the frame eval_internal entered
RECURSIVE NearestWithTry(_, _)
NearestWithTry(fs, i) ==
    IF i = 0 THEN 0
    ELSE IF fs[i].try_stack # << >> THEN i
    ELSE IF fs[i].exit_on_return THEN 0
    ELSE NearestWithTry(fs, i - 1)

\* faulty variant of the dispatcher: the sp of the handler is not restored
Unwind_keep_sp(fs, frame) ==
    IF fs[frame].try_stack # << >>
    THEN LET t == fs[frame].try_stack[Len(fs[frame].try_stack)]
             fs1 == [fs EXCEPT ![frame].try_stack = SubSeq(@, 1, Len(@) - 1)]
         IN [frames |-> FramePush(fs1, frame), cur |-> frame, ef |-> frame,
             caught |-> TRUE, entry |-> t]
    ELSE [frames |-> fs, cur |-> frame, ef |-> frame, caught |-> FALSE, entry |-> NoEntry]

\* the Err arm of eval_internal: frame is eval_internal's local; gives the
\* frame stack and the frame to resume, or caught = FALSE when Err(e) is
\* returned
RECURSIVE Unwind(_, _)
Unwind(fs, frame) ==
    IF fs[frame].try_stack # << >>
    THEN LET t == fs[frame].try_stack[Len(fs[frame].try_stack)]
             fs1 == [fs EXCEPT ![frame].try_stack = SubSeq(@, 1, Len(@) - 1),
                               ![frame].sp = t.sp]
         IN [frames |-> FramePush(fs1, frame), cur |-> frame, ef |-> frame,
             caught |-> TRUE, entry |-> t]
    ELSE IF ~fs[frame].exit_on_return
    THEN Unwind(SubSeq(fs, 1, Len(fs) - 1), frame - 1)
    ELSE [frames |-> fs, cur |-> frame, ef |-> frame, caught |-> FALSE, entry |-> NoEntry]

\* eval returned Err(e) while executing frame thrower; fs is the frame stack
\* eval left
Raise(fs, thrower, why) ==
    LET u == Unwind(fs, ef)
    IN /\ frames' = u.frames
       /\ cur' = u.cur
       /\ ef' = u.ef
       /\ mode' = IF u.caught THEN "run" ELSE "err"
       /\ lastThrow' =
            [valid |-> TRUE, thrower |-> thrower, spBefore |-> frames[thrower].sp,
             tryBefore |-> fs[thrower].try_stack,
             nearest |-> NearestWithTry(fs, thrower),
             caught |-> u.caught, ran |-> u.entry,
             catcher |-> IF u.caught THEN u.cur ELSE 0,
             op |-> why.op, err |-> why.err, full |-> why.op # "none" /\ StackFull(why.fs),
             fsAtPush |-> why.fs, fsAfterPush |-> why.fs]
       /\ lastRet' = NoRet

VmInit ==
    /\ frames = << >>
    /\ cur = 0
    /\ ef = 0
    /\ mode = "idle"
    /\ lastThrow = NoThrow
    /\ lastRet = NoRet

Running == mode = "run"

\* eval_internal up to the first eval: the frame of the entered code
Enter ==
    /\ mode # "run"
    /\ IF StackFull(frames)
       THEN /\ mode' = "err"
            /\ lastThrow' = PushSeen(NoThrow, "enter", RangeError, frames, frames)
            /\ UNCHANGED <<frames, cur, ef>>
       ELSE /\ frames' = Append(frames,
                           [new_frame(IF frames = << >> THEN 0 ELSE frames[Len(frames)].sp)
                              EXCEPT !.exit_on_return = TRUE])
            /\ cur' = Len(frames) + 1
            /\ ef' = Len(frames) + 1
            /\ mode' = "run"
            /\ lastThrow' = NoThrow
    /\ lastRet' = NoRet

\* OP_PUSH_INT, OP_PUSH_LITERAL, ...: one value more
OpPush ==
    /\ Running
    /\ frames[cur].sp < MaxSp
    /\ frames' = FramePush(frames, cur)
    /\ lastThrow' = NoThrow
    /\ lastRet' = NoRet
    /\ UNCHANGED <<cur, ef, mode>>

\* OP_POP
OpPop ==
    /\ Running
    /\ frames[cur].sp > Floor(frames[cur])
    /\ frames' = FramePop(frames, cur)
    /\ lastThrow' = NoThrow
    /\ lastRet' = NoRet
    /\ UNCHANGED <<cur, ef, mode>>

\* OP_PUSH_CATCH
OpPushCatch ==
    /\ Running
    /\ Len(frames[cur].try_stack) < MaxTry
    /\ frames[cur].sp < MaxSp
    /\ frames' = [frames EXCEPT ![cur].try_stack =
                     Append(@, [ip |-> IpCatch(cur, Len(@) + 1), sp |-> frames[cur].sp])]
    /\ lastThrow' = NoThrow
    /\ lastRet' = NoRet
    /\ UNCHANGED <<cur, ef, mode>>

\* OP_POP_CATCH
OpPopCatch ==
    /\ Running
    /\ frames[cur].try_stack # << >>
    /\ frames' = [frames EXCEPT ![cur].try_stack = SubSeq(@, 1, Len(@) - 1)]
    /\ lastThrow' = NoThrow
    /\ lastRet' = NoRet
    /\ UNCHANGED <<cur, ef, mode>>

\* OP_THROW, with the dispatch of the exception in eval_internal
OpThrow ==
    /\ Running
    /\ frames[cur].sp > Floor(frames[cur])
    /\ Raise(FramePop(frames, cur), cur, NoPush)

\* OP_CALL argc on a callee of kind func; nativeOk says whether a native
\* callee returns normally
OpCall(argc, func, nativeOk) ==
    /\ Running
    /\ frames[cur].sp - Floor(frames[cur]) >= argc + 2
    /\ LET args_start == frames[cur].sp - argc
           s0 == args_start - 2
           fs1 == [frames EXCEPT ![cur].sp = s0]
       IN IF func = "not callable"
          THEN Raise(fs1, cur, NoPush)
          ELSE IF func = "vm function"
          THEN IF StackFull(fs1)
               THEN Raise(fs1, cur, FailedPush("call", fs1))
               ELSE /\ frames' = Append(fs1,
                                   [new_frame(s0) EXCEPT !.sp = args_start + argc,
                                                         !.floor = args_start + argc,
                                                         !.caller = cur, !.s0 = s0])
                    /\ cur' = Len(fs1) + 1
                    /\ lastThrow' = NoThrow
                    /\ lastRet' = NoRet
                    /\ UNCHANGED <<ef, mode>>
          ELSE IF ~nativeOk
          THEN Raise(fs1, cur, NoPush)
          ELSE /\ frames' = FramePush(fs1, cur)
               /\ lastRet' = [valid |-> TRUE, caller |-> cur, expect |-> s0 + 1]
               /\ lastThrow' = NoThrow
               /\ UNCHANGED <<cur, ef, mode>>

\* OP_NEW argc on a callee of kind func: the sp of the caller is put back to
\* the first argument before the callee is entered or called
OpNew(argc, func, nativeOk) ==
    /\ Running
    /\ frames[cur].sp - Floor(frames[cur]) >= argc + 2
    /\ frames[cur].sp - argc < MaxSp
    /\ LET args_start == frames[cur].sp - argc
           fs0 == [frames EXCEPT ![cur].sp = args_start - 2]
           fs1 == [frames EXCEPT ![cur].sp = args_start]
       IN IF func = "not callable"
          THEN Raise(fs0, cur, NoPush)
          ELSE IF func = "vm function"
          THEN IF StackFull(fs1)
               THEN Raise(fs1, cur, FailedPush("new", fs1))
               ELSE /\ frames' = Append(fs1,
                                   [new_frame(frames[cur].sp) EXCEPT !.sp = args_start + argc,
                                                                      !.floor = args_start + argc,
                                                                      !.ctor = TRUE])
                    /\ cur' = Len(fs1) + 1
                    /\ lastThrow' = NoThrow
                    /\ lastRet' = NoRet
                    /\ UNCHANGED <<ef, mode>>
          ELSE IF ~nativeOk
          THEN Raise(fs1, cur, NoPush)
          ELSE /\ frames' = FramePush(fs1, cur)
               /\ lastRet' = NoRet
               /\ lastThrow' = NoThrow
               /\ UNCHANGED <<cur, ef, mode>>

\* OP_RET
OpRet ==
    /\ Running
    /\ LET f == frames[cur]
           fs0 == IF f.sp <= f.limit THEN frames ELSE FramePop(frames, cur)
           prev == fs0[Len(fs0)]
           rest == SubSeq(fs0, 1, Len(fs0) - 1)
       IN IF prev.exit_on_return \/ Len(fs0) = 1
          THEN /\ frames' = rest
               /\ mode' = "done"
               /\ cur' = 0
               /\ lastRet' = NoRet
               /\ UNCHANGED ef
          ELSE /\ frames' = FramePush(rest, Len(rest))
               /\ cur' = Len(rest)
               /\ lastRet' = IF f.caller # 0
                             THEN [valid |-> TRUE, caller |-> f.caller, expect |-> f.s0 + 1]
                             ELSE NoRet
               /\ UNCHANGED <<ef, mode>>
    /\ lastThrow' = NoThrow

(***************************************************************************)
(* Claims on calls, returns and unwinding.                                 *)
(***************************************************************************)
\* C3: after the return of a callee entered by CALL N (a RET of a VM callee
\* or the normal return of a native callee) the sp of the caller is the sp
\* it had before callee, this and the N arguments were pushed, plus 1
C3_CallRetSp ==
    lastRet.valid => frames[lastRet.caller].sp = lastRet.expect

\* C4: a throw in a frame that has open try blocks is caught, the handler
\* that runs is the innermost open try of the frame that executed the throw,
\* and exactly that entry is removed from its try_stack
C4_InnermostHandler ==
    (lastThrow.valid /\ lastThrow.tryBefore # << >>) =>
        /\ lastThrow.caught
        /\ lastThrow.ran = lastThrow.tryBefore[Len(lastThrow.tryBefore)]
        /\ lastThrow.catcher = lastThrow.thrower
        /\ frames[lastThrow.thrower].try_stack =
               SubSeq(lastThrow.tryBefore, 1, Len(lastThrow.tryBefore) - 1)

\* C5: an exception raised in a frame entered by CALL that has no open try
\* is caught by the nearest enclosing frame that has one, the frames above
\* that frame are popped, and it is the top of the frame stack when it
\* resumes
C5_CrossFrameUnwind ==
    (lastThrow.valid /\ lastThrow.nearest # 0 /\ lastThrow.nearest # lastThrow.thrower) =>
        /\ lastThrow.caught
        /\ lastThrow.catcher = lastThrow.nearest
        /\ cur = lastThrow.nearest
        /\ Len(frames) = lastThrow.nearest

\* C6 as stated: after a catch the sp of the catching frame is the sp its
\* PUSH_CATCH recorded
C6_SpIsRecorded ==
    (lastThrow.valid /\ lastThrow.caught) =>
        frames[lastThrow.catcher].sp = lastThrow.ran.sp

\* C6 amended: after a catch the sp of the catching frame is the sp its
\* PUSH_CATCH recorded plus one, the exception value pushed on top of it,
\* whatever the try body had pushed
C6_SpIsRecordedPlusException ==
    (lastThrow.valid /\ lastThrow.caught) =>
        frames[lastThrow.catcher].sp = lastThrow.ran.sp + 1

\* a catch of a throw made after the try body pushed two values and the
\* value thrown
C6_Witness ==
    /\ lastThrow.valid /\ lastThrow.caught
    /\ lastThrow.spBefore >= lastThrow.ran.sp + 3
    /\ frames[lastThrow.catcher].sp = lastThrow.ran.sp + 1

DepthAtEntry == ef - 1

\* C40: when eval_internal has returned, with a value or with an exception,
\* the frame stack is as deep as it was before the call; a call that got no
\* frame leaves the frame stack as it was
C40_FramesRestored ==
    /\ mode = "done" => Len(frames) = DepthAtEntry
    /\ (mode = "err" /\ lastThrow.op # "enter") => Len(frames) = DepthAtEntry
    /\ (mode = "err" /\ lastThrow.op = "enter") =>
          frames = lastThrow.fsAtPush /\ lastThrow.fsAfterPush = lastThrow.fsAtPush

(***************************************************************************)
(* Weak references (jsrt/weak_ref.rs, gc/cell.rs).                         *)
(*   gcPre     : the weak slots and the strongly reachable cells as they   *)
(*               were when the last collection began, until the next step  *)
(*   lastDeref : the result of the last WeakRef.prototype.deref            *)
(***************************************************************************)
VARIABLES gcPre, lastDeref

gcVars == <<gcPre, lastDeref>>

MaxGcOps == 3

\* rt.global_data().weak_ref_structure
weak_ref_structure == 2

\* weak_ref_constructor(rt, args) with args.at(0) = target
weak_ref_constructor(H, target) ==
    IF target.t # "object" THEN [H |-> H, ret |-> "TypeError", oid |-> NoObj]
    ELSE LET n == JsObject_new(H, weak_ref_structure, "WeakRef")
             w == make_weak(n.H, ObjCell(target.v))
         IN [H |-> [w.H EXCEPT !.objs[n.oid].weak = w.wid], ret |-> "ok", oid |-> n.oid]

\* weak_ref_prototype_deref(rt, args) with args.this = the WeakRef object o
weak_ref_prototype_deref(H, o) ==
    LET t == upgrade(H, H.objs[o].weak)
    IN IF t = NullCell THEN Undef ELSE ObjRef(t.id)

\* the cells a cell refers to strongly: property values, elements and the
\* Structure of an object; previous, prototype and transitions of a Structure
StrongSucc(H, c) ==
    IF c.kind = "obj"
    THEN LET ob == H.objs[c.id]
         IN {StructCell(ob.structure)}
            \cup {ObjCell(ob.slots[i].v) : i \in {j \in 1..Len(ob.slots) : ob.slots[j].t = "object"}}
            \cup {ObjCell(ob.vector[i].v) : i \in {j \in 1..Len(ob.vector) : ob.vector[j].t = "object"}}
            \cup {ObjCell(ob.map[i].value.v) : i \in {j \in DOMAIN ob.map : ob.map[j].value.t = "object"}}
    ELSE LET s == H.structs[c.id]
         IN {StructCell(x) : x \in ({s.previous} \ {NoStruct}) \cup {s.trans[k] : k \in DOMAIN s.trans}}
            \cup {ObjCell(x) : x \in {s.prototype} \ {NoObj}}

RECURSIVE StrongClosure(_, _)
StrongClosure(H, S) ==
    LET next == S \cup UNION {StrongSucc(H, c) : c \in S}
    IN IF next = S THEN S ELSE StrongClosure(H, next)

StronglyReachable(H, rootset) == StrongClosure(H, {c \in rootset : IsAllocated(H, c)})

NoGc == [valid |-> FALSE, weak |-> EmptyFn, reach |-> {}]

GcIdle ==
    /\ gcPre = NoGc
    /\ lastDeref = Empty

\* a vm whose heap holds one ordinary object, kept on the stack, the object
\* Structure and the WeakRef Structure
GcInit ==
    /\ structs = (1 :> Structure_new(NoObj, FALSE, FALSE))
                 @@ (weak_ref_structure :> Structure_new(NoObj, FALSE, FALSE))
    /\ objs = JsObject_new([objs |-> EmptyFn, structs |-> structs, weak |-> EmptyFn], 1, "Object").H.objs
    /\ weak = EmptyFn
    /\ roots = {ObjCell(1), StructCell(1), StructCell(weak_ref_structure)}
    /\ lastPut = NoPut
    /\ chain = [o \in {1} |-> NewChain(1)]
    /\ nops = 0
    /\ GcIdle

\* new WeakRef(target); the new object is kept on the stack
NewWeakRef(target) ==
    /\ Cardinality(DOMAIN objs) < MaxObjs
    /\ Cardinality(DOMAIN weak) < MaxWeak
    /\ \E r \in {weak_ref_constructor(Heap, target)} :
          /\ SetHeap(r.H)
          /\ roots' = IF r.ret = "ok" THEN roots \cup {ObjCell(r.oid)} ELSE roots
          /\ chain' = IF r.ret = "ok" THEN (r.oid :> NewChain(weak_ref_structure)) @@ chain ELSE chain
    /\ lastPut' = NoPut
    /\ nops' = nops + 1

\* weakRef.deref()
Deref(o) ==
    /\ o \in LiveObjs
    /\ objs[o].class = "WeakRef"
    /\ lastDeref' = weak_ref_prototype_deref(Heap, o)
    /\ UNCHANGED gcPre

\* vm.gc(false), remembering what the heap was
GcObserved ==
    /\ Gc
    /\ gcPre' = [valid |-> TRUE, weak |-> weak, reach |-> StronglyReachable(Heap, roots)]
    /\ lastDeref' = Empty

\* C7: right after a collection every weak slot whose target was reachable
\* from the roots through strong edges still upgrades to that cell, every
\* other weak slot upgrades to None and its target is gone, and deref of a
\* WeakRef object gives undefined exactly when its slot upgrades to None
C7_WeakAfterGc ==
    gcPre.valid =>
        /\ \A w \in DOMAIN gcPre.weak :
              IF gcPre.weak[w].target \in gcPre.reach
              THEN upgrade(Heap, w) = gcPre.weak[w].target /\ IsAllocated(Heap, upgrade(Heap, w))
              ELSE upgrade(Heap, w) = NullCell /\ ~IsAllocated(Heap, gcPre.weak[w].target)
        /\ \A o \in DOMAIN objs :
              objs[o].class = "WeakRef" =>
                  weak_ref_prototype_deref(Heap, o) =
                      IF gcPre.weak[objs[o].weak].target \in gcPre.reach
                      THEN ObjRef(gcPre.weak[objs[o].weak].target.id)
                      ELSE Undef

\* after a collection, a surviving WeakRef whose target was collected and a
\* surviving WeakRef whose target is no root but a property of a rooted object
C7_Witness ==
    /\ gcPre.valid
    /\ \E a, b \in DOMAIN objs :
          /\ objs[a].class = "WeakRef" /\ objs[b].class = "WeakRef"
          /\ weak_ref_prototype_deref(Heap, a) = Undef
          /\ gcPre.weak[objs[a].weak].target # NullCell
          /\ weak_ref_prototype_deref(Heap, b) # Undef
          /\ gcPre.weak[objs[b].weak].target \notin roots

(***************************************************************************)
(* Inline read cache of one GET_BY_ID / TRY_GET_BY_ID site                 *)
(* (interpreter.rs, OP_GET_BY_ID).                                         *)
(*   site     : the operands of the site: its name and whether the opcode  *)
(*              is OP_TRY_GET_BY_ID                                        *)
(*   feedback : the TypeFeedBack of the site; by is the object whose       *)
(*              lookup installed it                                        *)
(*   lastGet  : what the last execution of the site pushed or threw, and   *)
(*              what get_property_slot followed by slot.get gives          *)
(***************************************************************************)
VARIABLES site, feedback, lastGet

icVars == <<site, feedback, lastGet>>

MaxIcOps == 2

NoFeedBack == [kind |-> "None", structure |-> 0, offset |-> NoOffset, by |-> NoObj]
PropertyCache(wid, offset, by) == [kind |-> "PropertyCache", structure |-> wid, offset |-> offset, by |-> by]

ReferenceError == [t |-> "ReferenceError", v |-> 0]
GetterCall(accessor) == [t |-> "getter call", v |-> accessor.v]

\* Slot::get(rt, this): the value of a data property, the result of calling
\* the getter of an accessor
slot_get(slot) == IF slot.attrs.acc THEN GetterCall(slot.value) ELSE slot.value

\* Slot::offset() of a slot found by a named lookup
slot_offset(H, slot, name) == Structure_get(H, H.objs[slot.base].structure, name).offset

\* Slot::is_load_cacheable(): an own data property on a non-unique Structure
is_load_cacheable(H, o, name, found, slot) ==
    /\ found
    /\ ~name.idx
    /\ slot.base = o
    /\ ~slot.attrs.acc
    /\ ~H.structs[H.objs[slot.base].structure].unique

\* a test that takes any live cached Structure for the Structure of obj
cache_hit_any(H, fb, o) ==
    /\ fb.kind = "PropertyCache"
    /\ upgrade(H, fb.structure) # NullCell

\* structure.upgrade() is Some(s) and GcPointer::ptr_eq(s, obj.structure())
cache_hit(H, fb, o) ==
    /\ fb.kind = "PropertyCache"
    /\ upgrade(H, fb.structure) # NullCell
    /\ upgrade(H, fb.structure) = StructCell(H.objs[o].structure)

\* the uncached path: get_property_slot, then slot.get or undefined or,
\* for TRY_GET_BY_ID, a ReferenceError
uncached_get_by_id(H, o, name, is_try) ==
    LET r == get_property_slot(H, o, name, Slot_new)
    IN IF r.found THEN slot_get(r.slot)
       ELSE IF is_try THEN ReferenceError ELSE Undef

\* slow_get_by_id(rt, frame, obj, name, fdbk, is_try)
slow_get_by_id(H, fb, o, name, is_try) ==
    LET r == get_property_slot(H, o, name, Slot_new)
        cacheable == is_load_cacheable(H, o, name, r.found, r.slot)
        w == make_weak(H, StructCell(H.objs[r.slot.base].structure))
    IN [H |-> IF cacheable THEN w.H ELSE H,
        fb |-> IF cacheable THEN PropertyCache(w.wid, slot_offset(H, r.slot, name), o) ELSE fb,
        pushed |-> IF r.found THEN slot_get(r.slot)
                   ELSE IF is_try THEN ReferenceError ELSE Undef]

\* OP_GET_BY_ID / OP_TRY_GET_BY_ID on an object
get_by_id(H, fb, o, name, is_try) ==
    IF cache_hit(H, fb, o)
    THEN [H |-> H, fb |-> fb, pushed |-> direct(H, o, fb.offset), hit |-> TRUE]
    ELSE LET s == slow_get_by_id(H, fb, o, name, is_try)
         IN [H |-> s.H, fb |-> s.fb, pushed |-> s.pushed, hit |-> FALSE]

NoGet == [valid |-> FALSE, o |-> NoObj, pushed |-> Empty, expect |-> Empty, hit |-> FALSE,
          done |-> FALSE, miss |-> FALSE, is_try |-> FALSE, recv |-> Empty]

\* the sites reading the first name
Sites == [name : {KeySym(1)}, is_try : BOOLEAN]

\* descriptors handed to define_own_property on the objects the site reads
IcDescs == {DescNone(Int32(2)), AccessorDescriptor(TRUE, "T", "T")}

IcIdle ==
    /\ site = [name |-> KeySym(1), is_try |-> FALSE]
    /\ feedback = NoFeedBack
    /\ lastGet = NoGet

\* two objects created with one Structure whose prototype is a third object
IcInit ==
    /\ structs = (1 :> Structure_new(3, FALSE, FALSE)) @@ (2 :> Structure_new(NoObj, FALSE, FALSE))
    /\ objs = LET H0 == [objs |-> EmptyFn, structs |-> structs, weak |-> EmptyFn]
                  H1 == JsObject_new(H0, 1, "Object").H
                  H2 == JsObject_new(H1, 1, "Object").H
              IN JsObject_new(H2, 2, "Object").H.objs
    /\ weak = EmptyFn
    /\ roots = {ObjCell(1), ObjCell(2), ObjCell(3), StructCell(1), StructCell(2)}
    /\ lastPut = NoPut
    /\ chain = (3 :> NewChain(2)) @@ [o \in {1, 2} |-> NewChain(1)]
    /\ nops = 0
    /\ site \in Sites
    /\ feedback = NoFeedBack
    /\ lastGet = NoGet

\* the site runs on object o
GetById(o) ==
    /\ o \in LiveObjs
    /\ Cardinality(DOMAIN weak) < MaxWeak
    /\ \E r \in {get_by_id(Heap, feedback, o, site.name, site.is_try)} :
          /\ SetHeap(r.H)
          /\ feedback' = r.fb
          /\ lastGet' = [valid |-> TRUE, o |-> o, pushed |-> r.pushed,
                         expect |-> uncached_get_by_id(Heap, o, site.name, site.is_try), hit |-> r.hit,
                         done |-> TRUE, miss |-> ~get_property_slot(Heap, o, site.name, Slot_new).found,
                         is_try |-> site.is_try, recv |-> ObjRef(o)]
    /\ lastPut' = NoPut
    /\ UNCHANGED <<roots, chain, nops, site>>

\* the object whose properties a number shows: the end of the prototype chain
\* of the objects the site reads
NumberPrototype == 3

\* the receivers of the site that are not objects
Primitives == {Int32(1), Double(1)}

\* JsValue::get_slot(rt, name, slot) on a number: the lookup starts at the
\* prototype of numbers; a name that is not found gives undefined
JsValue_get_slot(H, val, name) ==
    LET r == get_property_slot(H, NumberPrototype, name, Slot_new)
    IN IF r.found THEN slot_get(r.slot) ELSE Undef

\* get_by_id_slow(rt, name, val): the opcode is not among its arguments
get_by_id_slow(H, name, val) == JsValue_get_slot(H, val, name)

\* the site runs on a receiver that is not an object
GetByIdPrimitive(val) ==
    /\ val \in Primitives
    /\ NumberPrototype \in LiveObjs
    /\ lastGet' = [valid |-> FALSE, o |-> NoObj, pushed |-> get_by_id_slow(Heap, site.name, val),
                   expect |-> get_by_id_slow(Heap, site.name, val), hit |-> FALSE,
                   done |-> TRUE,
                   miss |-> ~get_property_slot(Heap, NumberPrototype, site.name, Slot_new).found,
                   is_try |-> site.is_try, recv |-> val]
    /\ lastPut' = NoPut
    /\ UNCHANGED <<objs, structs, weak, roots, chain, nops, site, feedback>>

\* C2: what an execution of the site pushes (or throws) is what
\* get_property_slot followed by slot.get gives for the same object and name
C2_CachedEqualsUncached == lastGet.valid => lastGet.pushed = lastGet.expect

\* a hit on an object other than the one whose lookup filled the cache, which
\* holds another value at the cached offset than that object
C2_Witness ==
    /\ lastGet.valid /\ lastGet.hit
    /\ feedback.by \in DOMAIN objs
    /\ feedback.by # lastGet.o
    /\ lastGet.pushed.t = "int32"
    /\ direct(Heap, feedback.by, feedback.offset) # lastGet.pushed

\* C20: when the name is found neither on the receiver nor on its prototype
\* chain, a TRY_GET_BY_ID site throws a ReferenceError and pushes nothing and
\* a GET_BY_ID site pushes undefined, whether the receiver is an object or a
\* primitive
C20_TryGetThrowsOnMiss ==
    (lastGet.done /\ lastGet.miss) =>
        lastGet.pushed = IF lastGet.is_try THEN ReferenceError ELSE Undef

(***************************************************************************)
(* Heap snapshot (gc/snapshot/serializer.rs).  A snapshot is the list of   *)
(* cell records and the list of weak slot records; every pointer in it is  *)
(* an index into the reference map, 0 standing for a reference the map     *)
(* does not hold (the unwrap() on it panics).                              *)
(*   snap : the last snapshot taken and the runtime read back from it,     *)
(*          until the next step                                            *)
(***************************************************************************)
VARIABLES snap

snapVars == <<snap>>

MaxSnapOps == 2

ClassRef(class) == [kind |-> "class", id |-> IF class = "Object" THEN 1 ELSE 2]
WeakCell(w) == [kind |-> "weak", id |-> w]

\* the classes listed in VM_NATIVE_REFERENCES
VM_NATIVE_REFERENCES == <<ClassRef("Object")>>

\* the elements of a set of numbers in ascending order
Ascending(S) == [i \in 1..Cardinality(S) |-> CHOOSE x \in S : Cardinality({y \in S : y < x}) = i - 1]

MapSeq(s, F(_)) == [i \in 1..Len(s) |-> F(s[i])]

\* build_reference_map, then build_heap_reference_map: the native
\* references, the cells in walk order, the weak slots
build_reference_map(H) ==
    VM_NATIVE_REFERENCES
    \o MapSeq(Ascending(DOMAIN H.objs), ObjCell)
    \o MapSeq(Ascending(DOMAIN H.structs), StructCell)
    \o MapSeq(Ascending(DOMAIN H.weak), WeakCell)

\* the position of ref in the reference map, 0 when it is not there
IndexOf(refmap, ref) ==
    IF \E i \in 1..Len(refmap) : refmap[i] = ref
    THEN CHOOSE i \in 1..Len(refmap) : refmap[i] = ref
    ELSE 0

\* Serializable for JsValue: 0xff and a pointer index, or 0x1f and the bits
SerValue(refmap, v) ==
    IF v.t = "object" THEN [tag |-> 255, ref |-> IndexOf(refmap, ObjCell(v.v)), bits |-> Undef]
    ELSE [tag |-> 31, ref |-> 0, bits |-> v]

\* Serializable for JsObject: class, slots, structure, indexed, flags; the
\* data of the class is written for arguments, global, function and string
\* objects only
SerObject(refmap, ob) ==
    [kind |-> "obj",
     class |-> IndexOf(refmap, ClassRef(ob.class)),
     slots |-> [i \in 1..Len(ob.slots) |-> SerValue(refmap, ob.slots[i])],
     structure |-> IndexOf(refmap, StructCell(ob.structure)),
     vector |-> [i \in 1..Len(ob.vector) |-> SerValue(refmap, ob.vector[i])],
     map |-> [i \in DOMAIN ob.map |-> [value |-> SerValue(refmap, ob.map[i].value), attrs |-> ob.map[i].attrs]],
     flags |-> [hasMap |-> ob.hasMap, dense |-> ob.dense, length |-> ob.length,
                lenw |-> ob.lenw, ext |-> ob.ext]]

\* Serializable for Structure
SerStructure(refmap, s) ==
    [kind |-> "struct",
     trans |-> [k \in DOMAIN s.trans |-> IndexOf(refmap, StructCell(s.trans[k]))],
     table |-> s.table,
     deleted |-> s.deleted,
     previous |-> IF s.previous = NoStruct THEN 0 ELSE IndexOf(refmap, StructCell(s.previous)),
     hasPrevious |-> s.previous # NoStruct,
     prototype |-> IF s.prototype = NoObj THEN 0 ELSE IndexOf(refmap, ObjCell(s.prototype)),
     hasPrototype |-> s.prototype # NoObj,
     indexed |-> s.indexed, unique |-> s.unique, size |-> s.size]

\* the indices an object record needs resolved
ObjectRefs(rec) ==
    {rec.class, rec.structure}
    \cup {rec.slots[i].ref : i \in {j \in 1..Len(rec.slots) : rec.slots[j].tag = 255}}
    \cup {rec.vector[i].ref : i \in {j \in 1..Len(rec.vector) : rec.vector[j].tag = 255}}
    \cup {rec.map[i].value.ref : i \in {j \in DOMAIN rec.map : rec.map[j].value.tag = 255}}

\* SnapshotSerializer::serialize: one record per cell, then one per weak slot
serialize(H) ==
    LET refmap == build_reference_map(H)
        os == Ascending(DOMAIN H.objs)
        ss == Ascending(DOMAIN H.structs)
        ws == Ascending(DOMAIN H.weak)
        orecs == [i \in 1..Len(os) |->
                    [self |-> IndexOf(refmap, ObjCell(os[i])), payload |-> SerObject(refmap, H.objs[os[i]])]]
        srecs == [i \in 1..Len(ss) |->
                    [self |-> IndexOf(refmap, StructCell(ss[i])), payload |-> SerStructure(refmap, H.structs[ss[i]])]]
        wrecs == [i \in 1..Len(ws) |->
                    [present |-> H.weak[ws[i]].target # NullCell,
                     target |-> IF H.weak[ws[i]].target = NullCell THEN 0
                                ELSE IndexOf(refmap, H.weak[ws[i]].target),
                     self |-> IndexOf(refmap, WeakCell(ws[i]))]]
    IN [ok |-> \A i \in 1..Len(orecs) : 0 \notin ObjectRefs(orecs[i].payload),
        cells |-> orecs \o srecs,
        weaks |-> wrecs]

\* the cell that the index ref resolves to on load: cells and weak slots are
\* allocated in the order of their records
Resolve(bytes, ref) ==
    LET pos == CHOOSE i \in 1..Len(bytes.cells) : bytes.cells[i].self = ref
        kind == bytes.cells[pos].payload.kind
    IN [kind |-> kind,
        id |-> Cardinality({j \in 1..pos : bytes.cells[j].payload.kind = kind})]

DeValue(bytes, sv) == IF sv.tag = 255 THEN ObjRef(Resolve(bytes, sv.ref).id) ELSE sv.bits

\* Deserializer::deserialize: the heap read back from the records
deserialize(bytes) ==
    LET orecs == {i \in 1..Len(bytes.cells) : bytes.cells[i].payload.kind = "obj"}
        srecs == {i \in 1..Len(bytes.cells) : bytes.cells[i].payload.kind = "struct"}
        newOf(i) == Resolve(bytes, bytes.cells[i].self).id
        obOf(rec) ==
            [class |-> IF rec.class = 1 THEN "Object" ELSE "WeakRef",
             structure |-> Resolve(bytes, rec.structure).id,
             slots |-> [i \in 1..Len(rec.slots) |-> DeValue(bytes, rec.slots[i])],
             vector |-> [i \in 1..Len(rec.vector) |-> DeValue(bytes, rec.vector[i])],
             map |-> [i \in DOMAIN rec.map |->
                        [value |-> DeValue(bytes, rec.map[i].value), attrs |-> rec.map[i].attrs]],
             hasMap |-> rec.flags.hasMap, dense |-> rec.flags.dense, length |-> rec.flags.length,
             lenw |-> rec.flags.lenw, ext |-> rec.flags.ext, weak |-> 0]
        stOf(rec) ==
            [table |-> rec.table,
             trans |-> [k \in DOMAIN rec.trans |-> Resolve(bytes, rec.trans[k]).id],
             deleted |-> rec.deleted,
             prototype |-> IF rec.hasPrototype THEN Resolve(bytes, rec.prototype).id ELSE NoObj,
             previous |-> IF rec.hasPrevious THEN Resolve(bytes, rec.previous).id ELSE NoStruct,
             indexed |-> rec.indexed, unique |-> rec.unique, size |-> rec.size]
    IN [objs |-> [a \in {newOf(i) : i \in orecs} |->
                    obOf(bytes.cells[CHOOSE i \in orecs : newOf(i) = a].payload)],
        structs |-> [a \in {newOf(i) : i \in srecs} |->
                    stOf(bytes.cells[CHOOSE i \in srecs : newOf(i) = a].payload)],
        weak |-> [w \in 1..Len(bytes.weaks) |->
                    [state |-> "unmarked",
                     target |-> IF bytes.weaks[w].present
                                THEN Resolve(bytes, bytes.weaks[w].target) ELSE NullCell]]]

NoSnap == [valid |-> FALSE, ok |-> FALSE, H |-> [objs |-> EmptyFn, structs |-> EmptyFn, weak |-> EmptyFn],
           to |-> EmptyFn]

SnapIdle == snap = NoSnap

\* Snapshot::take(false, rt), then Deserializer::deserialize on its buffer
TakeSnapshot ==
    /\ LET bytes == serialize(Heap)
           refmap == build_reference_map(Heap)
       IN snap' = IF bytes.ok
                  THEN [valid |-> TRUE, ok |-> TRUE, H |-> deserialize(bytes),
                        to |-> [o \in DOMAIN objs |-> Resolve(bytes, IndexOf(refmap, ObjCell(o))).id]]
                  ELSE [NoSnap EXCEPT !.valid = TRUE]
    /\ UNCHANGED objVars

\* the value v of the runtime a snapshot was taken of, as the runtime read
\* back holds it
Moved(v) == IF v.t = "object" THEN ObjRef(snap.to[v.v]) ELSE v

\* C9: a snapshot can be taken of every heap, and in the runtime read back
\* from it every property of every object has the attributes and the value it
\* had, up to the addresses of the cells
C9_SnapshotRoundTrip ==
    snap.valid =>
        /\ snap.ok
        /\ \A o \in DOMAIN objs, k \in Symbols :
              LET d == get_property(Heap, o, k)
                  e == get_property(snap.H, snap.to[o], k)
              IN e.attrs = d.attrs /\ e.value = Moved(d.value)

\* C27: the class descriptor of every object of the heap (the WeakRef class
\* included) has a position in the reference map, so write_reference finds an
\* index for it and taking a snapshot never aborts
C27_ReferencesRegistered ==
    /\ \A o \in DOMAIN objs : IndexOf(build_reference_map(Heap), ClassRef(objs[o].class)) # 0
    /\ snap.valid => snap.ok

(***************************************************************************)
(* Calls with the contents of the value stack: OP_CALL, OP_NEW and OP_RET  *)
(* in code without try blocks.  The value stack is one array shared by all *)
(* frames; cells above the sp of the running frame are never read before   *)
(* they are written, so vstack holds the cells below that sp only.         *)
(*   vstack    : the cells of the value stack below the sp of the running  *)
(*               frame, bottom first                                       *)
(*   cframes   : the frame stack, top last; the running frame is the top   *)
(*   cursor    : Stack::cursor                                             *)
(*   cmode     : "idle", "run", "done" (Ok returned), "err" (Err returned) *)
(*   cresult   : the value eval returned                                   *)
(*   ncalls    : the number of OP_CALL and OP_NEW executed                 *)
(*   lastCall  : what the last OP_CALL took from the stack                 *)
(*   lastCRet  : what the last return of a callee yielded                  *)
(***************************************************************************)
VARIABLES vstack, cframes, cursor, cmode, cresult, ncalls, lastCall, lastCRet

callVars == <<vstack, cframes, cursor, cmode, cresult, ncalls, lastCall, lastCRet>>

MaxCells == 4
MaxCalls == 2

\* the objects a program of the model handles: an ordinary object, a
\* function compiled to bytecode, a native function and the global object
PlainObject == ObjRef(1)
VmFunction == ObjRef(2)
NativeFunction == ObjRef(3)
GlobalObject == ObjRef(4)
\* the object the n-th OP_NEW allocates
FreshObject(n) == ObjRef(4 + n)

PushVals == {Empty, Int32(1), PlainObject, VmFunction, NativeFunction}
NativeResults == {Undef, PlainObject}

\* JsValue::is_jsobject, JsValue::is_callable, JsFunction::is_vm
is_jsobject(v) == v.t = "object"
is_vm(v) == v = VmFunction

\* faulty variant: every object is taken for a function
is_callable_object(v) == is_jsobject(v)

\* JsValue::is_callable
is_callable(v) == v \in {VmFunction, NativeFunction}

\* the `this` setup_for_vm_call hands to the frame of a non-strict function
setup_for_vm_call(this) ==
    IF this = Undef THEN GlobalObject ELSE this

\* Stack::new_frame followed by the assignments of the caller to the frame
CallFrame(sp, ctor, this, exit, kind, s0, fresh) ==
    [sp |-> sp, limit |-> cursor, ctor |-> ctor, this |-> this,
     exit_on_return |-> exit, try_stack |-> << >>,
     floor |-> sp, kind |-> kind, s0 |-> s0, fresh |-> fresh]

NoCall == [valid |-> FALSE, argc |-> 0, before |-> << >>, func |-> Undef, this |-> Undef,
           args |-> << >>, op |-> "none", callee |-> Undef, err |-> Empty,
           framesBefore |-> << >>, framesAtErr |-> << >>, allocated |-> {}]

\* what an OP_CALL or OP_NEW did: err is what it returned as Err (Empty when
\* it went on), fs the frame stack when it left eval or entered the callee,
\* allocated what it had allocated for the call by then
CallSeen(rec, op, func, err, fs, allocated) ==
    [rec EXCEPT !.op = op, !.callee = func, !.err = err, !.framesBefore = cframes,
                !.framesAtErr = fs, !.allocated = allocated]

NoCRet == [valid |-> FALSE, kind |-> "none", native |-> FALSE, spAfter |-> 0, s0 |-> 0,
           yielded |-> Undef, pushedAny |-> FALSE, top |-> Undef, fresh |-> Undef]

CallIdle ==
    /\ vstack = << >>
    /\ cframes = << >>
    /\ cursor = 0
    /\ cmode = "idle"
    /\ cresult = Undef
    /\ ncalls = 0
    /\ lastCall = NoCall
    /\ lastCRet = NoCRet

CRunning == cmode = "run"
CTop == Len(cframes)
CSp == cframes[CTop].sp

\* eval_internal up to the first eval
CEnter ==
    /\ cmode = "idle"
    /\ cframes' = <<CallFrame(0, FALSE, GlobalObject, TRUE, "entry", 0, Undef)>>
    /\ cmode' = "run"
    /\ UNCHANGED <<vstack, cursor, cresult, ncalls, lastCall, lastCRet>>

\* OP_PUSH_INT, OP_PUSH_EMPTY, OP_GET_VAR, ...: one value more
CPush(v) ==
    /\ CRunning
    /\ CSp < MaxCells
    /\ cursor' = CSp
    /\ vstack' = Append(vstack, v)
    /\ cframes' = [cframes EXCEPT ![CTop].sp = @ + 1]
    /\ lastCall' = NoCall
    /\ lastCRet' = NoCRet
    /\ UNCHANGED <<cmode, cresult, ncalls>>

\* OP_POP
CPop ==
    /\ CRunning
    /\ CSp > cframes[CTop].floor
    /\ cursor' = CSp
    /\ vstack' = SubSeq(vstack, 1, CSp - 1)
    /\ cframes' = [cframes EXCEPT ![CTop].sp = @ - 1]
    /\ lastCall' = NoCall
    /\ lastCRet' = NoCRet
    /\ UNCHANGED <<cmode, cresult, ncalls>>

\* eval returned Err(e): the Err arm of eval_internal, whose frame is the
\* entry frame
CRaise(fs, sp) ==
    /\ cframes' = Unwind(fs, 1).frames
    /\ vstack' = SubSeq(vstack, 1, sp)
    /\ cmode' = "err"
    /\ lastCRet' = NoCRet
    /\ UNCHANGED cresult

\* OP_CALL argc; ok says whether setup_for_vm_call or the native function
\* returns normally, result is what a native function returns
CCall(argc, ok, result) ==
    /\ CRunning
    /\ ncalls < MaxCalls
    /\ CSp - cframes[CTop].floor >= argc + 2
    /\ LET args_start == CSp - argc
           func == vstack[args_start]
           this == vstack[args_start - 1]
           args == SubSeq(vstack, args_start + 1, args_start + argc)
           sp == args_start - 2
           fs1 == [cframes EXCEPT ![CTop].sp = sp]
           seen == [NoCall EXCEPT !.valid = TRUE, !.argc = argc, !.before = vstack, !.func = func,
                                  !.this = this, !.args = args]
       IN IF ~is_callable(func)
          THEN /\ CRaise(fs1, sp) /\ cursor' = CSp
               /\ lastCall' = CallSeen(seen, "call", func, TypeError, fs1, {})
          ELSE IF ~ok
          THEN /\ CRaise(fs1, sp) /\ cursor' = sp
               /\ lastCall' = CallSeen(seen, "call", func, Thrown, fs1,
                                       IF is_vm(func) THEN {"environment"} ELSE {})
          ELSE IF is_vm(func)
          THEN IF StackFull(fs1)
               THEN /\ CRaise(fs1, sp) /\ cursor' = sp
                    /\ lastCall' = CallSeen(seen, "call", func, RangeError, fs1, {"environment"})
               ELSE /\ cursor' = sp
                    /\ cframes' = Append(fs1,
                          [CallFrame(args_start + argc, FALSE, setup_for_vm_call(this),
                                     FALSE, "call", sp, Undef) EXCEPT !.limit = sp])
                    /\ lastCRet' = NoCRet
                    /\ lastCall' = CallSeen(seen, "call", func, Empty, cframes',
                                            {"environment", "frame"})
                    /\ UNCHANGED <<vstack, cmode, cresult>>
          ELSE /\ cursor' = sp
               /\ cframes' = [fs1 EXCEPT ![CTop].sp = sp + 1]
               /\ vstack' = Append(SubSeq(vstack, 1, sp), result)
               /\ lastCRet' = [NoCRet EXCEPT !.valid = TRUE, !.kind = "call",
                                  !.native = TRUE, !.spAfter = sp + 1, !.s0 = sp,
                                  !.yielded = result]
               /\ lastCall' = CallSeen(seen, "call", func, Empty, cframes', {})
               /\ UNCHANGED <<cmode, cresult>>
    /\ ncalls' = ncalls + 1

\* OP_NEW argc; ok says whether func_construct_map, setup_for_vm_call or the
\* native constructor returns normally
CNew(argc, ok, result) ==
    /\ CRunning
    /\ ncalls < MaxCalls
    /\ CSp - cframes[CTop].floor >= argc + 2
    /\ LET args_start == CSp - argc
           func == vstack[args_start]
           object == FreshObject(ncalls + 1)
           fs0 == [cframes EXCEPT ![CTop].sp = args_start - 2]
           fs1 == [cframes EXCEPT ![CTop].sp = args_start]
       IN /\ cursor' = CSp
          /\ IF ~is_callable(func)
             THEN /\ CRaise(fs0, args_start - 2)
                  /\ lastCall' = CallSeen(NoCall, "new", func, TypeError, fs0, {})
             ELSE IF ~ok
             THEN /\ CRaise(fs0, args_start - 2)
                  /\ lastCall' = CallSeen(NoCall, "new", func, Thrown, fs0, {})
             ELSE IF is_vm(func)
             THEN IF StackFull(fs1)
                  THEN /\ CRaise(fs1, args_start)
                       /\ lastCall' = CallSeen(NoCall, "new", func, RangeError, fs1,
                                               {"object", "environment"})
                  ELSE /\ cframes' = Append(fs1,
                             [CallFrame(args_start + argc, TRUE, setup_for_vm_call(object),
                                        FALSE, "new", args_start - 2, object) EXCEPT !.limit = CSp])
                       /\ lastCRet' = NoCRet
                       /\ lastCall' = CallSeen(NoCall, "new", func, Empty, cframes',
                                               {"object", "environment", "frame"})
                       /\ UNCHANGED <<vstack, cmode, cresult>>
             ELSE /\ cframes' = [fs1 EXCEPT ![CTop].sp = args_start + 1]
                  /\ vstack' = Append(SubSeq(vstack, 1, args_start), result)
                  /\ lastCRet' = [NoCRet EXCEPT !.valid = TRUE, !.kind = "new",
                                     !.native = TRUE, !.spAfter = args_start + 1,
                                     !.s0 = args_start - 2, !.yielded = result,
                                     !.fresh = object]
                  /\ lastCall' = CallSeen(NoCall, "new", func, Empty, cframes', {"object"})
                  /\ UNCHANGED <<cmode, cresult>>
    /\ ncalls' = ncalls + 1

\* OP_RET
CRet ==
    /\ CRunning
    /\ LET frame == cframes[CTop]
           popped == frame.sp > frame.limit
           value0 == IF popped THEN vstack[frame.sp] ELSE Undef
           value == IF frame.ctor /\ ~is_jsobject(value0) THEN frame.this ELSE value0
           rest == SubSeq(cframes, 1, CTop - 1)
       IN IF frame.exit_on_return \/ CTop = 1
          THEN /\ cframes' = rest
               /\ vstack' = SubSeq(vstack, 1, IF popped THEN frame.sp - 1 ELSE frame.sp)
               /\ cmode' = "done"
               /\ cresult' = value
               /\ lastCRet' = NoCRet
          ELSE /\ cframes' = [rest EXCEPT ![CTop - 1].sp = @ + 1]
               /\ vstack' = Append(SubSeq(vstack, 1, rest[CTop - 1].sp), value)
               /\ lastCRet' = [valid |-> TRUE, kind |-> frame.kind, native |-> FALSE,
                               spAfter |-> rest[CTop - 1].sp + 1, s0 |-> frame.s0,
                               yielded |-> value,
                               pushedAny |-> frame.sp > frame.floor,
                               top |-> IF frame.sp > 0 THEN vstack[frame.sp] ELSE Undef,
                               fresh |-> frame.fresh]
               /\ UNCHANGED <<cmode, cresult>>
    /\ cursor' = CSp
    /\ lastCall' = NoCall
    /\ UNCHANGED ncalls

(***************************************************************************)
(* Claims on the calling convention.                                       *)
(***************************************************************************)
\* C11: OP_CALL N takes the N topmost entries of the stack as the arguments
\* with argument 0 on top, the entry directly below the arguments as `this`
\* and the entry below that one as the callee
C11_CallingConvention ==
    lastCall.valid =>
        LET n == Len(lastCall.before)
            N == lastCall.argc
        IN /\ \A i \in 0..(N - 1) : lastCall.args[i + 1] = lastCall.before[n - i]
           /\ lastCall.this = lastCall.before[n - N]
           /\ lastCall.func = lastCall.before[n - N - 1]

\* C12: after the return of a constructor entered by OP_NEW N (a RET of a VM
\* constructor or the normal return of a native one) the sp of the caller is
\* the sp it had before the N arguments and the two entries below them were
\* pushed, plus 1
C12_NewNetStackEffect ==
    (lastCRet.valid /\ lastCRet.kind = "new") => lastCRet.spAfter = lastCRet.s0 + 1

\* C22: an OP_CALL or OP_NEW whose callee slot holds a value that is not a
\* function returns a TypeError; it pushes no frame and allocates no object
\* and no Environment for the call, and the frame stack has the depth and
\* the frames below the running one it had before the instruction
C22_NotCallable ==
    (lastCall.op \in {"call", "new"} /\ lastCall.callee \notin {VmFunction, NativeFunction}) =>
        /\ lastCall.err = TypeError
        /\ lastCall.allocated = {}
        /\ Len(lastCall.framesAtErr) = Len(lastCall.framesBefore)
        /\ \A i \in 1..(Len(lastCall.framesBefore) - 1) :
              lastCall.framesAtErr[i] = lastCall.framesBefore[i]

\* an OP_NEW on an ordinary object, executed by the code of a called function
C22_Witness ==
    /\ lastCall.op = "new"
    /\ lastCall.callee = PlainObject
    /\ lastCall.err = TypeError
    /\ Len(lastCall.framesBefore) = 2

\* what the code of the returning frame returned: the top of its stack, or
\* undefined when it pushed nothing
CReturned == IF lastCRet.pushedAny THEN lastCRet.top ELSE Undef

\* C13: a RET in a frame made by OP_NEW yields the fresh `this` of the frame
\* when the returned value is not an object and the returned value when it
\* is one; a RET in a frame made by OP_CALL yields the returned value,
\* undefined when the stack of the frame is empty
C13_RetYield ==
    (lastCRet.valid /\ ~lastCRet.native) =>
        /\ lastCRet.kind = "new" =>
              lastCRet.yielded = IF is_jsobject(CReturned) THEN CReturned ELSE lastCRet.fresh
        /\ lastCRet.kind = "call" => lastCRet.yielded = CReturned

(***************************************************************************)
(* Inline write cache of one PUT_BY_ID site (interpreter.rs, OP_PUT_BY_ID  *)
(* and put_by_id_slow).  The site writes the name the read site reads.     *)
(*   pfeedback : the TypeFeedBack of the site; old_structure and           *)
(*               new_structure are the addresses of Structures             *)
(*               (GcPointer<Structure>), NoStruct for None                 *)
(*   lastPid   : the object after the last execution of the site, and the  *)
(*               object put_slot alone gives from the same state           *)
(*   pgc       : the Structures the two sites referred to before the last  *)
(*               collection and the cells the roots reached                *)
(***************************************************************************)
VARIABLES pfeedback, lastPid, pgc

picVars == <<pfeedback, lastPid, pgc>>

MaxPicOps == 4

PutName == KeySym(1)

NoPutFeedBack == [kind |-> "None", old_structure |-> NoStruct, new_structure |-> NoStruct,
                  offset |-> 0]
PutByIdFeedBack(old, offset) ==
    [kind |-> "PutByIdFeedBack", old_structure |-> old, new_structure |-> NoStruct,
     offset |-> offset]

\* JsObject::put_slot as the interpreter uses it on a named key:
\* PutNonIndexedSlotMethod, where the Slot of an own property knows its
\* offset (the interpreter reads slot.offset() after the lookup); cp is
\* what can_put returned
put_slot_checked(H, o, name, val, cp) ==
    IF ~cp.ok THEN [H |-> H, ret |-> "ok", slot |-> cp.slot, tr |-> << >>]
    ELSE IF ~slot_is_not_found(cp.slot) /\ cp.slot.base = o /\ ~cp.slot.attrs.acc
    THEN [DefineOwnNonIndexedPropertySlotMethod(H, o, name, DescUndef(val),
              [cp.slot EXCEPT !.offset = slot_offset(H, cp.slot, name)]) EXCEPT !.ret = "ok"]
    ELSE IF ~slot_is_not_found(cp.slot) /\ cp.slot.attrs.acc
    THEN [H |-> H, ret |-> "panic", slot |-> cp.slot, tr |-> << >>]
    ELSE [DefineOwnNonIndexedPropertySlotMethod(H, o, name, DescWCE(val), cp.slot) EXCEPT !.ret = "ok"]

put_slot_woffset(H, o, name, val) == put_slot_checked(H, o, name, val, can_put(H, o, name, Slot_new))

\* Slot::is_put_cacheable(): the put stored the value in a slot of the object
is_put_cacheable(slot) == slot.put \in {"New", "Replace"}

\* the end of put_by_id_slow: r is what put_slot returned; the feedback is
\* written unless the put added the property
put_by_id_feedback(fb, o, r) ==
    [H |-> r.H,
     fb |-> IF is_put_cacheable(r.slot) /\ r.slot.base = o /\ r.slot.put # "New"
            THEN PutByIdFeedBack(r.H.objs[o].structure, r.slot.putOffset) ELSE fb,
     ret |-> r.ret, fast |-> FALSE]

\* put_by_id_slow(rt, frame, obj, name, value, fdbk)
put_by_id_slow(H, fb, o, name, value) == put_by_id_feedback(fb, o, put_slot_woffset(H, o, name, value))

\* OP_PUT_BY_ID on an object
put_by_id(H, fb, o, name, value) ==
    IF fb.kind = "PutByIdFeedBack" /\ H.objs[o].structure = fb.old_structure
       /\ fb.new_structure = NoStruct
    THEN [H |-> direct_mut(H, o, fb.offset, value), fb |-> fb, ret |-> "ok", fast |-> TRUE]
    ELSE put_by_id_slow(H, fb, o, name, value)

NoPid == [valid |-> FALSE, fast |-> FALSE, o |-> NoObj, after |-> Empty, expect |-> Empty]
NoPgc == [valid |-> FALSE, cached |-> {}, reach |-> {}]

PicIdle ==
    /\ pfeedback = NoPutFeedBack
    /\ lastPid = NoPid
    /\ pgc = NoPgc

\* the Structures the entries of the two sites refer to
CachedCells(H, rfb, wfb) ==
    (IF rfb.kind = "PropertyCache" THEN {upgrade(H, rfb.structure)} \ {NullCell} ELSE {})
    \cup (IF wfb.kind = "PutByIdFeedBack" THEN {StructCell(wfb.old_structure)} ELSE {})

\* the write site runs on object o with value v
PutById(o, v) ==
    /\ o \in LiveObjs
    /\ CanAllocStruct
    /\ \E r \in {put_by_id(Heap, pfeedback, o, PutName, v)} :
          /\ r.ret # "panic"
          /\ SetHeap(r.H)
          /\ pfeedback' = r.fb
          /\ lastPid' = [valid |-> TRUE, fast |-> r.fast, o |-> o, after |-> r.H.objs[o],
                         expect |-> put_slot_woffset(Heap, o, PutName, v).H.objs[o]]
          /\ chain' = [chain EXCEPT ![o] = NewChain(r.H.objs[o].structure)]
    /\ lastPut' = NoPut
    /\ nops' = nops + 1
    /\ pgc' = NoPgc
    /\ UNCHANGED roots

\* a collection while the sites hold their feedback; traced says whether the
\* trace of the code block visits the Structures of a PutByIdFeedBack
PicGc(traced) ==
    /\ GcFrom(roots \cup (IF traced /\ pfeedback.kind = "PutByIdFeedBack"
                          THEN {StructCell(pfeedback.old_structure)} ELSE {}))
    /\ pgc' = [valid |-> TRUE, cached |-> CachedCells(Heap, feedback, pfeedback),
               reach |-> StronglyReachable(Heap, roots)]
    /\ lastPid' = NoPid
    /\ UNCHANGED pfeedback

(***************************************************************************)
(* Claims on the write cache and on the Structures the caches hold.        *)
(***************************************************************************)
\* C15: when PUT_BY_ID takes the cached path, the object (its Structure, its
\* slots and the value written) is what put_slot gives for the same object,
\* name and value; in every other case the object is what put_slot gives
C15_WriteCacheEqualsSlowPath ==
    lastPid.valid => lastPid.after = lastPid.expect

\* C16: a Structure that only the feedback of a site referred to is reclaimed
\* by a collection, and after the collection no entry refers to it any more
C16_CachesHoldWeakly ==
    pgc.valid =>
        \A c \in pgc.cached \ pgc.reach :
            /\ ~IsAllocated(Heap, c)
            /\ c \notin CachedCells(Heap, feedback, pfeedback)

(***************************************************************************)
(* Deletes observed: what the last delete returned, and the object and the *)
(* Structures it started from.                                             *)
(***************************************************************************)
VARIABLES lastDel

delVars == <<lastDel>>

MaxDelOps == 3

NoDel == [valid |-> FALSE, o |-> NoObj, k |-> KeySym(0), ret |-> "none", own |-> FALSE,
          conf |-> FALSE, preObj |-> Empty, preStructs |-> EmptyFn]

DelIdle == lastDel = NoDel

\* descriptors handed to define_own_property before a delete
DelDescs == {DescNone(Int32(1)), DescWCE(Int32(1))}

\* obj.delete(vm, k, false), with what it found and what it returned
DeleteObserved(o, k) ==
    /\ Delete(o, k)
    /\ lastDel' = [valid |-> TRUE, o |-> o, k |-> k, ret |-> delete(Heap, o, k).ret,
                   own |-> get_own_property_slot(Heap, o, k, Slot_new).found,
                   conf |-> get_own_property_slot(Heap, o, k, Slot_new).slot.attrs.c,
                   preObj |-> objs[o], preStructs |-> structs]

\* C18: delete (throw = false) of an own property that is not configurable
\* returns false and leaves the Structure, the slots and the elements of the
\* object as they were; delete of a key the object does not own returns true
\* and changes nothing either; delete of a configurable own property returns
\* true and an own lookup of the key then finds nothing
C18_Delete ==
    lastDel.valid =>
        /\ (lastDel.own /\ ~lastDel.conf) =>
              /\ lastDel.ret = "false"
              /\ objs[lastDel.o] = lastDel.preObj
              /\ structs = lastDel.preStructs
        /\ ~lastDel.own =>
              /\ lastDel.ret = "true"
              /\ objs[lastDel.o] = lastDel.preObj
              /\ structs = lastDel.preStructs
        /\ (lastDel.own /\ lastDel.conf) =>
              /\ lastDel.ret = "true"
              /\ ~get_own_property_slot(Heap, lastDel.o, lastDel.k, Slot_new).found

\* a refused delete of an index held in the sparse map of an object that owns
\* more than one index
C18_Witness ==
    /\ lastDel.valid /\ lastDel.k.idx /\ lastDel.own /\ ~lastDel.conf
    /\ lastDel.ret = "false"
    /\ objs[lastDel.o].hasMap
    /\ Cardinality(DOMAIN objs[lastDel.o].map) > 1

(***************************************************************************)
(* Stores observed: the objects and the Structures the last put or define  *)
(* started from.                                                           *)
(***************************************************************************)
VARIABLES lastStore

storeVars == <<lastStore>>

MaxStoreOps == 3

NoStore == [valid |-> FALSE, o |-> NoObj, k |-> KeySym(0), preObjs |-> EmptyFn, preStructs |-> EmptyFn]

StoreIdle == lastStore = NoStore

StoreSeen(o, k) == [valid |-> TRUE, o |-> o, k |-> k, preObjs |-> objs, preStructs |-> structs]

\* obj.put(vm, k, v, false), with the heap it started from
PutObserved(o, k, v) == Put(o, k, v) /\ lastStore' = StoreSeen(o, k)

\* obj.define_own_property(vm, k, desc, false), with the heap it started from
DefineObserved(o, k, d) == Define(o, k, d) /\ lastStore' = StoreSeen(o, k)

\* the last store put an indexed element into an object that did not own it
\* and whose Structure was not flagged indexed
StoredFirstIndexed ==
    /\ lastStore.valid
    /\ lastStore.k.idx
    /\ ~lastStore.preStructs[lastStore.preObjs[lastStore.o].structure].indexed
    /\ get_own_property_slot(Heap, lastStore.o, lastStore.k, Slot_new).found

\* C19: an indexed element stored into an object whose Structure is not
\* flagged indexed moves the object to another Structure, which has the
\* indexed flag; the Structure it had is as it was, and so is every other
\* object, whether it uses that Structure or not
C19_IndexedTransition ==
    StoredFirstIndexed =>
        \E old \in {lastStore.preObjs[lastStore.o].structure} :
            /\ objs[lastStore.o].structure # old
            /\ structs[objs[lastStore.o].structure].indexed
            /\ old \in DOMAIN structs
            /\ structs[old] = lastStore.preStructs[old]
            /\ \A b \in (DOMAIN lastStore.preObjs) \ {lastStore.o} :
                  b \in DOMAIN objs /\ objs[b] = lastStore.preObjs[b]

\* the first indexed element of an object, stored while another object uses
\* the same Structure and owns a named property
C19_Witness ==
    /\ StoredFirstIndexed
    /\ lastStore.preObjs[lastStore.o].vector = << >>
    /\ ~lastStore.preObjs[lastStore.o].hasMap
    /\ \E b \in (DOMAIN objs) \ {lastStore.o} :
          /\ objs[b].structure = lastStore.preObjs[lastStore.o].structure
          /\ structs[objs[b].structure].size > 0

(***************************************************************************)
(* Environments (interpreter.rs, the variable opcodes).  An Environment is *)
(* a vector of cells [value, mutable]; the frame runs in Environment 1,    *)
(* whose parent is Environment 2.                                          *)
(*   envs      : the cells of each Environment; decl tells the opcode that *)
(*               declared the cell last                                    *)
(*   estack    : the operand stack of the frame                            *)
(*   lastWrite : the last GE0SL or SET_LOCAL: the cell before it, the      *)
(*               value it carried and what it raised                       *)
(***************************************************************************)
VARIABLES envs, estack, lastWrite, neops

envVars == <<envs, estack, lastWrite, neops>>

MaxEnvOps == 5
MaxEnvStack == 2
EnvSize == 2

EnvRef(e) == [t |-> "environment", v |-> e]

\* the Environment GET_ENV reaches at a depth: frame.env at depth 0, its
\* parent at depth 1
EnvAt(depth) == 1 + depth

Variable(value, mutable, decl) == [value |-> value, mutable |-> mutable, decl |-> decl]

NoWrite == [valid |-> FALSE, op |-> "none", env |-> 0, ix |-> 0, val |-> Empty,
            pre |-> Variable(Empty, TRUE, "none"), raised |-> Empty]

EnvIdle ==
    /\ envs = [e \in {EnvAt(0), EnvAt(1)} |-> [i \in 0..(EnvSize - 1) |-> Variable(Undef, TRUE, "none")]]
    /\ estack = << >>
    /\ lastWrite = NoWrite
    /\ neops = 0

EPop(n) == SubSeq(estack, 1, Len(estack) - n)
ETop(n) == estack[Len(estack) - n]

\* a literal is pushed
EPushValue(v) ==
    /\ Len(estack) < MaxEnvStack
    /\ estack' = Append(estack, v)
    /\ lastWrite' = NoWrite
    /\ neops' = neops + 1
    /\ UNCHANGED envs

\* OP_GET_ENV depth
GetEnv(depth) ==
    /\ Len(estack) < MaxEnvStack
    /\ estack' = Append(estack, EnvRef(EnvAt(depth)))
    /\ lastWrite' = NoWrite
    /\ neops' = neops + 1
    /\ UNCHANGED envs

\* OP_DECL_CONST ix
DeclConst(ix) ==
    /\ Len(estack) >= 1
    /\ envs' = [envs EXCEPT ![EnvAt(0)][ix] = Variable(ETop(0), FALSE, "const")]
    /\ estack' = EPop(1)
    /\ lastWrite' = NoWrite
    /\ neops' = neops + 1

\* OP_DECL_LET ix
DeclLet(ix) ==
    /\ Len(estack) >= 1
    /\ envs' = [envs EXCEPT ![EnvAt(0)][ix] = Variable(ETop(0), TRUE, "let")]
    /\ estack' = EPop(1)
    /\ lastWrite' = NoWrite
    /\ neops' = neops + 1

\* faulty variant: the value is stored whatever the flag of the cell
set_variable_any(E, e, ix, val) ==
    [envs |-> [E EXCEPT ![e][ix].value = val], raised |-> Empty]

\* the end of OP_GE0SL and OP_SET_LOCAL: the test of the mutable flag and
\* the store
set_variable(E, e, ix, val) ==
    IF ~E[e][ix].mutable
    THEN [envs |-> E, raised |-> TypeError]
    ELSE [envs |-> [E EXCEPT ![e][ix].value = val], raised |-> Empty]

\* OP_GE0SL ix
GE0SL(ix) ==
    /\ Len(estack) >= 1
    /\ \E r \in {set_variable(envs, EnvAt(0), ix, ETop(0))} :
          /\ envs' = r.envs
          /\ lastWrite' = [valid |-> TRUE, op |-> "GE0SL", env |-> EnvAt(0), ix |-> ix, val |-> ETop(0),
                           pre |-> envs[EnvAt(0)][ix], raised |-> r.raised]
    /\ estack' = EPop(1)
    /\ neops' = neops + 1

\* OP_SET_LOCAL ix: the Environment is popped first, the value second
SetLocal(ix) ==
    /\ Len(estack) >= 2
    /\ ETop(0).t = "environment"
    /\ \E r \in {set_variable(envs, ETop(0).v, ix, ETop(1))} :
          /\ envs' = r.envs
          /\ lastWrite' = [valid |-> TRUE, op |-> "SET_LOCAL", env |-> ETop(0).v, ix |-> ix, val |-> ETop(1),
                           pre |-> envs[ETop(0).v][ix], raised |-> r.raised]
    /\ estack' = EPop(2)
    /\ neops' = neops + 1

\* C21: a GE0SL or SET_LOCAL on a cell declared by DECL_CONST raises a
\* TypeError and leaves the value and the mutable flag of the cell as they
\* were; on a cell declared by DECL_LET it raises nothing and the cell holds
\* the value written
C21_ImmutableBinding ==
    lastWrite.valid =>
        /\ lastWrite.pre.decl = "const" =>
              /\ lastWrite.raised = TypeError
              /\ envs[lastWrite.env][lastWrite.ix] = lastWrite.pre
        /\ lastWrite.pre.decl = "let" =>
              /\ lastWrite.raised = Empty
              /\ envs[lastWrite.env][lastWrite.ix].value = lastWrite.val
              /\ envs[lastWrite.env][lastWrite.ix].mutable

\* a SET_LOCAL refused on a constant that holds another value than the one
\* written
C21_Witness ==
    /\ lastWrite.valid /\ lastWrite.op = "SET_LOCAL"
    /\ lastWrite.pre.decl = "const"
    /\ lastWrite.raised = TypeError
    /\ lastWrite.val # lastWrite.pre.value

(***************************************************************************)
(* Safepoints (interpreter.rs, eval).  A run of eval is a sequence of      *)
(* instructions; the model keeps which instruction ran last and whether    *)
(* Heap::collect_if_necessary was called while it ran.                     *)
(*   sfLast    : the last step: entry of eval or an opcode, the direction  *)
(*               of a jump, and whether the collector was asked            *)
(*   sfAsked   : how often collect_if_necessary was called                 *)
(*   sfSteps   : the number of instructions executed                       *)
(***************************************************************************)
VARIABLES sfLast, sfAsked, sfSteps

safeVars == <<sfLast, sfAsked, sfSteps>>

MaxSafeSteps == 4

\* the opcodes whose arm in eval allocates a heap cell
AllocatingOpcodes ==
    {"OP_NEWOBJECT", "OP_NEWARRAY", "OP_GET_FUNCTION", "OP_PUSH_ENV", "OP_SPREAD", "OP_TYPEOF"}

\* the opcodes that enter a function
CallingOpcodes == {"OP_CALL", "OP_NEW", "OP_CALL_BUILTIN"}

JumpOpcodes == {"OP_JMP", "OP_JMP_IF_FALSE", "OP_JMP_IF_TRUE"}

\* opcodes that neither jump, call nor allocate
PlainOpcodes == {"OP_PUSH_INT", "OP_POP", "OP_ADD"}

Opcodes == AllocatingOpcodes \cup CallingOpcodes \cup JumpOpcodes \cup PlainOpcodes

\* the arms of eval that call rt.heap().collect_if_necessary()
ArmCollects(op) == op \in {"OP_JMP", "OP_CALL", "OP_NEW", "OP_CALL_BUILTIN"}

\* the directions of the jumps the compiler emits: goto (a loop back-edge)
\* emits OP_JMP, the patched forward jumps are OP_JMP and the conditional ones
JumpDirections(op) ==
    IF op = "OP_JMP" THEN {"forward", "backward"}
    ELSE IF op \in JumpOpcodes THEN {"forward"}
    ELSE {"none"}

NoStep == [op |-> "none", dir |-> "none", asked |-> FALSE]

SafeIdle ==
    /\ sfLast = NoStep
    /\ sfAsked = 0
    /\ sfSteps = 0

\* the entry of eval: the collector is asked before the first instruction
EvalEntry ==
    /\ sfLast.op = "none"
    /\ sfLast' = [op |-> "entry", dir |-> "none", asked |-> TRUE]
    /\ sfAsked' = sfAsked + 1
    /\ UNCHANGED sfSteps

\* one instruction of the loop of eval
EvalStep(op, dir) ==
    /\ sfLast.op # "none"
    /\ dir \in JumpDirections(op)
    /\ sfLast' = [op |-> op, dir |-> dir, asked |-> ArmCollects(op)]
    /\ sfAsked' = IF ArmCollects(op) THEN sfAsked + 1 ELSE sfAsked
    /\ sfSteps' = sfSteps + 1

\* C24: collect_if_necessary is called at the entry of a function, on every
\* backward jump, at CALL, NEW and CALL_BUILTIN, and during every opcode
\* that allocates a heap cell
C24_Safepoints ==
    (\/ sfLast.op = "entry"
     \/ sfLast.dir = "backward"
     \/ sfLast.op \in CallingOpcodes
     \/ sfLast.op \in AllocatingOpcodes) => sfLast.asked

(***************************************************************************)
(* Compiled control flow (frontend.rs, Compiler::emit_stmt and its jump    *)
(* emitters; interpreter.rs, the jump and catch arms of eval).  A          *)
(* statement list is compiled to bytes, and eval runs the bytes.           *)
(*   unit      : the compiled unit: its bytes, and for the formulas the    *)
(*               jumps and the try statements the compiler emitted         *)
(*   cpc       : the instruction pointer, an address in the bytes          *)
(*   ctry      : the try_stack of the frame (handler addresses)            *)
(*   cstatus   : "run", "done" (OP_RET) or "uncaught" (Err leaves the      *)
(*               interpreter)                                              *)
(*   csteps    : the number of instructions executed                       *)
(*   lastJump  : the last jump taken or handler pushed                     *)
(*   lastRaise : the last OP_THROW executed and where it was delivered     *)
(*   cscope    : the scopes pushed and not yet popped since the entry      *)
(*   cbase     : for every loop (by the address it begins at) the scope    *)
(*               depth when control last came to it from outside           *)
(*   lastCont  : the last continue taken: the test it went to, whether the *)
(*               update of its loop is still due, and whether the test was *)
(*               evaluated while it was due                                *)
(***************************************************************************)
VARIABLES unit, cpc, ctry, cstatus, csteps, lastJump, lastRaise, cscope, cbase, lastCont

codeVars == <<unit, cpc, ctry, cstatus, csteps, lastJump, lastRaise, cscope, cbase, lastCont>>

MaxCodeSteps == 14

\* a statement: k is its kind, a/b/c are statement lists (try: block,
\* handler body, finalizer; while: body; if: cons, alt), hb/hc tell whether
\* the handler or alt (hb) and the finalizer (hc) are present
Stmt(k, a, b, c, hb, hc) == [k |-> k, a |-> a, b |-> b, c |-> c, hb |-> hb, hc |-> hc]

ExprStmt == Stmt("expr", << >>, << >>, << >>, FALSE, FALSE)

ThrowStmt == Stmt("throw", << >>, << >>, << >>, FALSE, FALSE)

TryCatch(block, handler) == Stmt("try", block, handler, << >>, TRUE, FALSE)

TryFinally(block, finalizer) == Stmt("try", block, << >>, finalizer, FALSE, TRUE)

TryCatchFinally(block, handler, finalizer) == Stmt("try", block, handler, finalizer, TRUE, TRUE)

While(body) == Stmt("while", body, << >>, << >>, FALSE, FALSE)

If(cons) == Stmt("if", cons, << >>, << >>, FALSE, FALSE)

IfElse(cons, alt) == Stmt("if", cons, alt, << >>, TRUE, FALSE)

Block(stmts) == Stmt("block", stmts, << >>, << >>, FALSE, FALSE)

BreakStmt == Stmt("break", << >>, << >>, << >>, FALSE, FALSE)

ContinueStmt == Stmt("continue", << >>, << >>, << >>, FALSE, FALSE)

\* for (init; test; update) body: body is one statement, init and update are
\* expressions that may be absent
For(body, init, update) == Stmt("for", <<body>>, << >>, << >>, init, update)

\* the function bodies with loops, breaks and continues
LoopPrograms ==
    { <<For(Block(<<ExprStmt>>), TRUE, TRUE)>>,
      <<For(Block(<<ContinueStmt>>), FALSE, TRUE)>>,
      <<For(Block(<<BreakStmt>>), FALSE, TRUE), ExprStmt>>,
      <<For(BreakStmt, FALSE, FALSE)>>,
      <<For(Block(<<If(<<BreakStmt>>), ExprStmt>>), FALSE, TRUE)>>,
      <<For(Block(<<If(<<ContinueStmt>>)>>), TRUE, TRUE)>>,
      <<While(<<ExprStmt>>), ExprStmt>>,
      <<While(<<BreakStmt>>)>>,
      <<While(<<ContinueStmt>>)>>,
      <<While(<<If(<<ContinueStmt>>)>>)>>,
      <<While(<<For(Block(<<ExprStmt>>), FALSE, TRUE)>>)>>,
      <<For(Block(<<While(<<BreakStmt>>)>>), FALSE, TRUE)>> }

\* the function bodies compiled
Programs ==
    { <<TryCatch(<<ExprStmt>>, <<ExprStmt>>), ThrowStmt>>,
      <<TryCatch(<<ThrowStmt>>, <<ExprStmt>>), ThrowStmt>>,
      <<TryCatch(<< >>, << >>), ExprStmt>>,
      <<While(<<TryCatch(<<ExprStmt>>, << >>)>>), ThrowStmt>>,
      <<IfElse(<<ExprStmt>>, <<ThrowStmt>>)>>,
      <<TryCatchFinally(<<While(<<ExprStmt>>)>>, << >>, <<ExprStmt>>)>>,
      <<While(<<If(<<ExprStmt>>)>>)>>,
      <<TryCatch(<<TryCatch(<<ThrowStmt>>, <<ThrowStmt>>)>>, <<ExprStmt>>)>>,
      <<TryFinally(<<If(<<ThrowStmt>>)>>, <<ExprStmt>>), ExprStmt>> }

OpByte(op) == [k |-> "op", op |-> op, b |-> 0]

Byte(b) == [k |-> "byte", op |-> "", b |-> b]

\* (n as u32).to_le_bytes() of an i32 n: two's complement, low byte first
u32_le_bytes(n) ==
    [i \in 1..4 |->
        IF n >= 0 THEN (n \div (256 ^ (i - 1))) % 256
        ELSE 255 - (((-(n + 1)) \div (256 ^ (i - 1))) % 256)]

\* the value of four bytes read as an unsigned number below 2^31
le_magnitude(b) == b[1] + 256 * b[2] + 65536 * b[3] + 16777216 * b[4]

\* ip.cast::<i32>().read() with ip at address a (addresses count from 0)
read_i32(code, a) ==
    IF code[a + 4].b < 128 THEN le_magnitude([i \in 1..4 |-> code[a + i].b])
    ELSE -(le_magnitude([i \in 1..4 |-> 255 - code[a + i].b]) + 1)

\* lci is the compiler's stack of LoopControlInfo; conts, brks and loops
\* tell the formulas where the compiler put continues, breaks and loops
NewUnit == [code |-> << >>, jumps |-> {}, tries |-> {}, lci |-> << >>, conts |-> {}, brks |-> {}, loops |-> {}]

\* ByteCodeBuilder::emit of an opcode without operand
emit0(cs, op) == [cs EXCEPT !.code = @ \o <<OpByte(op)>>]

\* ByteCodeBuilder::emit of an opcode with one 32-bit operand
emit1(cs, op, n) ==
    [cs EXCEPT !.code = @ \o <<OpByte(op)>> \o [i \in 1..4 |-> Byte(u32_le_bytes(n)[i])]]

\* the closure returned by try_, cjmp and jmp, called when the target is the
\* end of the code: it writes the opcode and the offset at the site p
patch(cs, p, op) ==
    [cs EXCEPT
        !.code = [i \in 1..Len(cs.code) |->
                    IF i = p + 1 THEN OpByte(op)
                    ELSE IF i \in (p + 2)..(p + 5)
                         THEN Byte(u32_le_bytes(Len(cs.code) - (p + 5))[i - (p + 1)])
                         ELSE cs.code[i]],
        !.jumps = @ \cup {[site |-> p, target |-> Len(cs.code)]}]

\* Compiler::goto: a jump to an address already emitted
goto(cs, to) ==
    [emit1(cs, "OP_JMP", to - (Len(cs.code) + 5)) EXCEPT
        !.jumps = @ \cup {[site |-> Len(cs.code), target |-> to]}]

\* Compiler::push_lci
push_lci(cs, continue_target) ==
    [cs EXCEPT !.lci = Append(@, [continue_target |-> continue_target, breaks |-> << >>])]

RECURSIVE patch_breaks(_, _)
\* the loop of pop_lci: the closures of the breaks, last first
patch_breaks(cs, breaks) ==
    IF breaks = << >> THEN cs
    ELSE patch_breaks(patch(cs, breaks[Len(breaks)], "OP_JMP"), SubSeq(breaks, 1, Len(breaks) - 1))

\* Compiler::pop_lci
pop_lci(cs) ==
    [patch_breaks(cs, cs.lci[Len(cs.lci)].breaks) EXCEPT !.lci = SubSeq(cs.lci, 1, Len(cs.lci) - 1)]

\* a loop whose code ends here: it begins at begin, its test is at head and
\* its update at update (-1 without update)
loop(cs, kind, begin, head, update) ==
    [cs EXCEPT !.loops = @ \cup {[kind |-> kind, begin |-> begin, head |-> head,
                                  update |-> update, end |-> Len(cs.code)]}]

\* an expression statement: emit(expr, false)
emit_expr(cs) == emit0(emit0(cs, "OP_PUSH_UNDEFINED"), "OP_DROP")

\* Stmt::Break
emit_break(cs) ==
    [emit1(cs, "OP_PLACEHOLDER", 0) EXCEPT
        !.lci[Len(cs.lci)].breaks = Append(@, Len(cs.code)),
        !.brks = @ \cup {Len(cs.code)}]

\* Stmt::Continue
emit_continue(cs) ==
    [goto(emit0(cs, "OP_POP_SCOPE"), cs.lci[Len(cs.lci)].continue_target) EXCEPT
        !.conts = @ \cup {Len(cs.code) + 1}]

RECURSIVE emit_stmt(_, _)
RECURSIVE emit_stmts(_, _)

emit_stmts(cs, ss) ==
    IF ss = << >> THEN cs ELSE emit_stmts(emit_stmt(cs, Head(ss)), Tail(ss))

\* a statement list between OP_PUSH_SCOPE and OP_POP_SCOPE, which the try
\* statement emits only around a list that is not empty
scoped(cs, ss) ==
    IF ss = << >> THEN cs
    ELSE emit0(emit_stmts(emit0(cs, "OP_PUSH_SCOPE"), ss), "OP_POP_SCOPE")

\* Stmt::Block
emit_block(cs, ss) ==
    emit0(emit_stmts(emit0(cs, "OP_PUSH_SCOPE"), ss), "OP_POP_SCOPE")

\* Stmt::Try from the patch of jfinally on: c is the code after the handler,
\* pj and pc are the sites of the two jumps to the finalizer
emit_try_end(c, s, pj, pc) ==
    IF s.hc THEN scoped(patch(patch(c, pj, "OP_JMP"), pc, "OP_JMP"), s.c)
    ELSE patch(patch(c, pj, "OP_JMP"), pc, "OP_JMP")

\* the jump that ends the handler
emit_try_jcatch(c, s, pj) ==
    emit_try_end(emit1(c, "OP_PLACEHOLDER", 0), s, pj, Len(c.code))

\* Stmt::Try from the handler on: c is the code up to the handler
emit_try_handler(c, s, pj) ==
    IF s.hb
    THEN IF s.b = << >>
         THEN emit_try_jcatch(emit0(c, "OP_DROP"), s, pj)
         ELSE emit_try_jcatch(
                 emit0(emit_stmts(emit0(emit0(c, "OP_PUSH_SCOPE"), "OP_DROP"), s.b), "OP_POP_SCOPE"),
                 s, pj)
    ELSE emit_try_jcatch(emit0(c, "OP_DROP"), s, pj)

\* Stmt::Try from the end of the block on: c is the code up to there, p the
\* site of OP_TRY_PUSH_CATCH
emit_try_body_end(c, s, p) ==
    emit_try_handler(
        [patch(emit1(c, "OP_PLACEHOLDER", 0), p, "OP_TRY_PUSH_CATCH") EXCEPT
            !.tries = @ \cup {[push |-> p, exit |-> Len(c.code), handler |-> Len(c.code) + 5]}],
        s, Len(c.code))

\* Stmt::Try
emit_try(cs, s) ==
    emit_try_body_end(scoped(emit1(cs, "OP_TRY_PUSH_CATCH", 0), s.a), s, Len(cs.code))

\* Stmt::While from the test on: c is the code after the test, head the
\* address of the test
emit_while_body(c, s, head) ==
    loop(pop_lci(patch(goto(emit_block(emit1(c, "OP_PLACEHOLDER", 0), s.a), head),
                       Len(c.code), "OP_JMP_FALSE")),
         "while", head, head, -1)

\* Stmt::While; the test is one instruction that pushes a value
emit_while(cs, s) ==
    emit_while_body(emit0(push_lci(cs, Len(cs.code)), "OP_TEST"), s, Len(cs.code))

\* Stmt::For from goto(head) on: c is the code after the update, jend the
\* site of the jump that leaves the loop when the test fails
emit_for_end(c, begin, head, jend, update) ==
    loop(emit0(patch(emit0(pop_lci(goto(c, head)), "OP_POP_SCOPE"), jend, "OP_JMP_FALSE"),
               "OP_POP_SCOPE"),
         "for", begin, head, update)

\* Stmt::For from the update on: c is the code after the body
emit_for_update(c, s, begin, head, jend) ==
    IF s.hc THEN emit_for_end(emit_expr(c), begin, head, jend, Len(c.code))
    ELSE emit_for_end(c, begin, head, jend, -1)

\* Stmt::For from cjmp(false) on: c is the code after the test
emit_for_body(c, s, begin, head) ==
    emit_for_update(emit_stmts(emit1(c, "OP_PLACEHOLDER", 0), s.a), s, begin, head, Len(c.code))

\* Stmt::For from head on: c is the code after init
emit_for_head(c, s, begin) ==
    emit_for_body(emit0(push_lci(c, Len(c.code)), "OP_TEST"), s, begin, Len(c.code))

\* Stmt::For
emit_for(cs, s) ==
    emit_for_head(IF s.hb THEN emit_expr(emit0(cs, "OP_PUSH_SCOPE")) ELSE emit0(cs, "OP_PUSH_SCOPE"),
                  s, Len(cs.code))

\* Stmt::If with an alternative from the end of cons on
emit_if_alt(c, s, jelse) ==
    patch(emit_block(patch(emit1(c, "OP_PLACEHOLDER", 0), jelse, "OP_JMP_FALSE"), s.b),
          Len(c.code), "OP_JMP")

\* Stmt::If from the test on
emit_if_cons(c, s) ==
    IF s.hb THEN emit_if_alt(emit_block(emit1(c, "OP_PLACEHOLDER", 0), s.a), s, Len(c.code))
    ELSE patch(emit_block(emit1(c, "OP_PLACEHOLDER", 0), s.a), Len(c.code), "OP_JMP_FALSE")

\* Stmt::If
emit_if(cs, s) ==
    emit_if_cons(emit0(cs, "OP_TEST"), s)

\* Compiler::emit_stmt
emit_stmt(cs, s) ==
    CASE s.k = "expr"  -> emit0(emit0(cs, "OP_PUSH_UNDEFINED"), "OP_DROP")
      [] s.k = "throw" -> emit0(emit0(cs, "OP_PUSH_UNDEFINED"), "OP_THROW")
      [] s.k = "try"   -> emit_try(cs, s)
      [] s.k = "while" -> emit_while(cs, s)
      [] s.k = "if"    -> emit_if(cs, s)
      [] s.k = "block" -> emit_block(cs, s.a)
      [] s.k = "break" -> emit_break(cs)
      [] s.k = "continue" -> emit_continue(cs)
      [] s.k = "for"   -> emit_for(cs, s)

\* a function body and the return that ends it
Compile(ss) ==
    emit0(emit0(emit_stmts(NewUnit, ss), "OP_PUSH_UNDEFINED"), "OP_RET")

NoJump == [op |-> "none", site |-> 0, landed |-> 0]

NoRaise == [at |-> 0, thrown |-> FALSE, delivered |-> FALSE, handler |-> 0]

NoCont == [due |-> FALSE, head |-> 0, retested |-> FALSE]

CodeIdle ==
    /\ unit = NewUnit
    /\ cpc = 0
    /\ ctry = << >>
    /\ cstatus = "idle"
    /\ csteps = 0
    /\ lastJump = NoJump
    /\ lastRaise = NoRaise
    /\ cscope = 0
    /\ cbase = << >>
    /\ lastCont = NoCont

\* the opcode at the instruction pointer
Fetch == unit.code[cpc + 1].op

\* the scope depth the instruction at the instruction pointer leaves
ScopeAfter ==
    CASE Fetch = "OP_PUSH_SCOPE" -> cscope + 1
      [] Fetch = "OP_POP_SCOPE" -> cscope - 1
      [] OTHER -> cscope

\* the loops control comes to from outside when it goes to next
LoopsEntered(next) ==
    {l \in unit.loops : next = l.begin /\ ~(l.begin <= cpc /\ cpc < l.end)}

\* the loop of the last continue has an update, which starts at address a
UpdateOfContinue(a) ==
    \E l \in unit.loops : l.head = lastCont.head /\ l.update = a /\ a # -1

\* the last continue after the instruction at the instruction pointer, which
\* goes to next
ContAfter(next) ==
    IF Fetch = "OP_JMP" /\ cpc \in unit.conts
    THEN [due |-> \E l \in unit.loops : l.head = next /\ l.update # -1,
          head |-> next, retested |-> FALSE]
    ELSE IF lastCont.due /\ UpdateOfContinue(cpc)
         THEN [lastCont EXCEPT !.due = FALSE]
         ELSE IF lastCont.due /\ cpc = lastCont.head
              THEN [lastCont EXCEPT !.retested = TRUE]
              ELSE lastCont

JumpTo_from_operand == cpc + 1 + read_i32(unit.code, cpc + 1)

\* where a jump at site cpc goes: the operand is read at cpc + 1, ip is
\* advanced by 4 and then by the offset
JumpTo == cpc + 1 + 4 + read_i32(unit.code, cpc + 1)

CodeStep(next) ==
    /\ cpc' = next
    /\ csteps' = csteps + 1
    /\ cscope' = ScopeAfter
    /\ cbase' = [b \in DOMAIN cbase |->
                    IF \E l \in LoopsEntered(next) : l.begin = b THEN ScopeAfter ELSE cbase[b]]
    /\ lastCont' = ContAfter(next)
    /\ UNCHANGED unit

\* compile one of the bodies and enter it
CompileAndEnter(ss) ==
    /\ cstatus = "idle"
    /\ unit' = Compile(ss)
    /\ cstatus' = "run"
    /\ cbase' = [b \in {l.begin : l \in Compile(ss).loops} |-> 0]
    /\ UNCHANGED <<cpc, ctry, csteps, lastJump, lastRaise, cscope, lastCont>>

\* OP_JMP
CJmp ==
    /\ cstatus = "run" /\ Fetch = "OP_JMP"
    /\ CodeStep(JumpTo)
    /\ lastJump' = [op |-> "OP_JMP", site |-> cpc, landed |-> JumpTo]
    /\ UNCHANGED <<ctry, cstatus, lastRaise>>

\* OP_JMP_IF_FALSE and OP_JMP_IF_TRUE; value is the boolean of the value popped
CJmpIf(value) ==
    /\ cstatus = "run" /\ Fetch \in {"OP_JMP_FALSE", "OP_JMP_TRUE"}
    /\ IF value = (Fetch = "OP_JMP_TRUE")
       THEN /\ CodeStep(JumpTo)
            /\ lastJump' = [op |-> Fetch, site |-> cpc, landed |-> JumpTo]
       ELSE /\ CodeStep(cpc + 5)
            /\ lastJump' = NoJump
    /\ UNCHANGED <<ctry, cstatus, lastRaise>>

\* OP_PUSH_CATCH
CPushCatch ==
    /\ cstatus = "run" /\ Fetch = "OP_TRY_PUSH_CATCH"
    /\ ctry' = Append(ctry, JumpTo)
    /\ CodeStep(cpc + 5)
    /\ lastJump' = [op |-> "OP_PUSH_CATCH", site |-> cpc, landed |-> JumpTo]
    /\ UNCHANGED <<cstatus, lastRaise>>

\* OP_POP_CATCH
CPopCatch ==
    /\ cstatus = "run" /\ Fetch = "OP_POP_CATCH"
    /\ ctry' = IF ctry = << >> THEN ctry ELSE SubSeq(ctry, 1, Len(ctry) - 1)
    /\ CodeStep(cpc + 1)
    /\ UNCHANGED <<cstatus, lastJump, lastRaise>>

\* OP_THROW and the Err arm of eval_internal for the entry frame
CThrow ==
    /\ cstatus = "run" /\ Fetch = "OP_THROW"
    /\ IF ctry # << >>
       THEN /\ ctry' = SubSeq(ctry, 1, Len(ctry) - 1)
            /\ CodeStep(ctry[Len(ctry)])
            /\ lastRaise' = [at |-> cpc, thrown |-> TRUE, delivered |-> TRUE, handler |-> ctry[Len(ctry)]]
            /\ UNCHANGED cstatus
       ELSE /\ cstatus' = "uncaught"
            /\ CodeStep(cpc)
            /\ lastRaise' = [at |-> cpc, thrown |-> TRUE, delivered |-> FALSE, handler |-> 0]
            /\ UNCHANGED ctry
    /\ UNCHANGED lastJump

\* OP_RET
CodeRet ==
    /\ cstatus = "run" /\ Fetch = "OP_RET"
    /\ cstatus' = "done"
    /\ CodeStep(cpc)
    /\ UNCHANGED <<ctry, lastJump, lastRaise>>

\* the opcodes that go on to the next instruction
COther ==
    /\ cstatus = "run"
    /\ Fetch \in {"OP_PUSH_UNDEFINED", "OP_DROP", "OP_PUSH_SCOPE", "OP_POP_SCOPE", "OP_TEST"}
    /\ CodeStep(cpc + 1)
    /\ UNCHANGED <<ctry, cstatus, lastJump, lastRaise>>

\* the try statements whose block holds the address a
Enclosing(a) == {t \in unit.tries : t.push + 5 <= a /\ a < t.exit}

\* the instruction at the address a is op
IsOp(a, op) == unit.code[a + 1].k = "op" /\ unit.code[a + 1].op = op

\* C25: every try statement is compiled to a PUSH_CATCH before its block and a
\* POP_CATCH at the normal exit of the block; at every instruction outside the
\* blocks' exits the try_stack holds exactly the handlers of the blocks around
\* it, and a throw is delivered only to the handler of a block that holds it
C25_TryBalanced ==
    /\ \A t \in unit.tries :
          /\ IsOp(t.push, "OP_TRY_PUSH_CATCH")
          /\ \E a \in (t.push + 5)..t.exit : IsOp(a, "OP_POP_CATCH")
    /\ (cstatus = "run" /\ \A t \in unit.tries : cpc # t.exit) =>
          Len(ctry) = Cardinality(Enclosing(cpc))
    /\ lastRaise.delivered =>
          \E t \in Enclosing(lastRaise.at) : t.handler = lastRaise.handler

\* C26: every jump the compiler emits carries, as a 32-bit operand, the offset
\* target - (site + 5), and a jump taken by the interpreter (and a handler
\* pushed by PUSH_CATCH) goes exactly to the target the compiler meant
C26_JumpOffsets ==
    /\ \A j \in unit.jumps :
          /\ unit.code[j.site + 1].op \in {"OP_JMP", "OP_JMP_FALSE", "OP_JMP_TRUE", "OP_TRY_PUSH_CATCH"}
          /\ read_i32(unit.code, j.site + 1) = j.target - (j.site + 5)
    /\ lastJump.op # "none" =>
          /\ \E j \in unit.jumps : j.site = lastJump.site
          /\ \A j \in unit.jumps : j.site = lastJump.site => lastJump.landed = j.target
    /\ lastRaise.delivered =>
          \E j \in unit.jumps : IsOp(j.site, "OP_TRY_PUSH_CATCH") /\ j.target = lastRaise.handler

\* a loop went round: the back-edge emitted by goto was taken after the
\* forward exit of the loop had been passed over
C26_Witness ==
    /\ lastJump.op = "OP_JMP"
    /\ lastJump.landed < lastJump.site
    /\ \E j \in unit.jumps : j.site = lastJump.site /\ j.target = lastJump.landed /\ cpc = j.target

MaxLoopSteps == 24

\* the scopes a loop of this kind holds open at its test: the for statement
\* pushes one before init, the while statement none
ScopesOfLoop(l) == IF l.kind = "for" THEN 1 ELSE 0

\* C33: the scope depth is the same at every evaluation of a loop's test (the
\* depth before the loop, and one more in a for loop), and after the loop,
\* however it ended, it is the depth before the loop: as many POP_SCOPE as
\* PUSH_SCOPE were executed since the loop statement began
C33_ScopeBalanced ==
    cstatus = "run" =>
        \A l \in unit.loops :
            /\ cpc = l.head => cscope = cbase[l.begin] + ScopesOfLoop(l)
            /\ cpc = l.end => cscope = cbase[l.begin]

\* the loops whose code holds the address a
LoopsAround(a) == {l \in unit.loops : l.begin <= a /\ a < l.end}

\* the address a is past the body, the update and the back-edge of the loop l:
\* from a on there is nothing but the POP_SCOPEs that close the loop
LeavesLoop(l, a) ==
    /\ a <= l.end
    /\ \A b \in a..(l.end - 1) : IsOp(b, "OP_POP_SCOPE")

\* C34: after a continue in a for loop with an update the test is not
\* evaluated again before the update has been evaluated, and a break goes
\* forward out of the innermost loop around it
C34_ContinueToUpdate ==
    /\ ~lastCont.retested
    /\ (lastJump.op = "OP_JMP" /\ lastJump.site \in unit.brks) =>
          \E l \in LoopsAround(lastJump.site) :
              /\ \A m \in LoopsAround(lastJump.site) : m.begin <= l.begin
              /\ lastJump.landed > lastJump.site
              /\ LeavesLoop(l, lastJump.landed)

(***************************************************************************)
(* Symbol table of a snapshot (serializer.rs, build_symbol_table and       *)
(* write_symbol).                                                          *)
(*   symtab  : the interner: the id of every interned string               *)
(*   symout  : the symbol table last written: the count in its header, its *)
(*             entries (index in the snapshot, string), and symbol_map     *)
(*   symlast : the last symbol written by write_symbol                     *)
(***************************************************************************)
VARIABLES symtab, symout, symlast

symVars == <<symtab, symout, symlast>>

\* the first id given to a string interned by a program
PUBLIC_START == 2

\* the strings with a reserved id, assigned when the interner is set up
WellKnown == [n \in {"length", "prototype"} |-> IF n = "length" THEN 0 ELSE 1]

\* the strings programs intern
PublicNames == {"a", "b"}

NoSymbols == [valid |-> FALSE, count |-> 0, entries |-> << >>, symbol_map |-> EmptyFn]

NoSymbol == [tag |-> 0, v |-> 0, key |-> ""]

SymIdle ==
    /\ symtab = WellKnown
    /\ symout = NoSymbols
    /\ symlast = NoSymbol

\* the interner gives a new string the next id
InternSymbol(name) ==
    /\ name \notin DOMAIN symtab
    /\ symtab' = [n \in DOMAIN symtab \cup {name} |->
                    IF n = name THEN Cardinality(DOMAIN symtab) ELSE symtab[n]]
    /\ UNCHANGED <<symout, symlast>>

\* the string with the id i
NameOf(i) == CHOOSE n \in DOMAIN symtab : symtab[n] = i

\* SnapshotSerializer::build_symbol_table with the entries of the interner
\* met in the order order[1], order[2], ... of their ids
build_symbol_table(tab, order) ==
    [valid |-> TRUE,
     count |-> Len(order),
     entries |-> [i \in 1..Len(order) |-> [ix |-> i - 1, key |-> NameOf(order[i])]],
     symbol_map |-> [id \in {order[i] : i \in 1..Len(order)} |->
                        (CHOOSE i \in 1..Len(order) : order[i] = id) - 1]]

\* the orders in which a map with the ids 0 .. n-1 can be iterated
IterationOrders(n) ==
    {order \in [1..n -> 0..(n - 1)] : \A i, j \in 1..n : order[i] = order[j] => i = j}

BuildSymbolTable(order) ==
    /\ symout' = build_symbol_table(symtab, order)
    /\ symlast' = NoSymbol
    /\ UNCHANGED symtab

\* SnapshotSerializer::write_symbol for Symbol::Key(id)
write_symbol(out, id) ==
    IF id < PUBLIC_START THEN [tag |-> 31, v |-> id]
    ELSE [tag |-> 47, v |-> out.symbol_map[id]]

\* a key of a cell is written after the table; a string interned after the
\* table was built has no entry in symbol_map
WriteSymbol(name) ==
    /\ symout.valid
    /\ symtab[name] \in DOMAIN symout.symbol_map
    /\ symlast' = [tag |-> write_symbol(symout, symtab[name]).tag,
                   v |-> write_symbol(symout, symtab[name]).v, key |-> name]
    /\ UNCHANGED <<symtab, symout>>

\* C28: the symbol table written holds entries of symbols at or above the
\* public threshold only, and the count in its header is the number of entries
C28_SymbolTable ==
    symout.valid =>
        /\ \A i \in 1..Len(symout.entries) : symtab[symout.entries[i].key] >= PUBLIC_START
        /\ symout.count = Len(symout.entries)

(***************************************************************************)
(* Error classes of an initialized runtime (jsrt.rs, Runtime::init_error). *)
(*   ecells  : the objects init_error allocates, in the order of their     *)
(*             allocation: class, prototype, properties, and for a native  *)
(*             function its function pointer                               *)
(*   eglobal : the properties of the global object                         *)
(*   egdata  : the error entries of GlobalData (the prototype objects and  *)
(*             the prototypes of the structures of instances)              *)
(*   estep   : how many blocks of init_error have run                      *)
(*   ewrites : the number of assignments programs made to globals          *)
(*   lastName: the last global a program read, with the value it got       *)
(***************************************************************************)
VARIABLES ecells, eglobal, egdata, estep, ewrites, lastName

errVars == <<ecells, eglobal, egdata, estep, ewrites, lastName>>

MaxErrWrites == 2

\* the object prototype passed to init_error
ObjectPrototype == 0

StringVal(s) == [t |-> "string", s |-> s]

ECell(class, proto, native) ==
    [class |-> class, proto |-> proto, native |-> native, props |-> EmptyFn]

\* JsNativeFunction::new: a callable object of class Function
ENative(f) == ECell("Function", ObjectPrototype, f)

\* define_own_property of a new name on a cell init_error has just made
EDefine(cells, o, name, value) ==
    [cells EXCEPT ![o].props = [n \in DOMAIN @ \cup {name} |-> IF n = name THEN value ELSE @[n]]]

EDefineGlobal(g, name, value) ==
    [n \in DOMAIN g \cup {name} |-> IF n = name THEN value ELSE g[n]]

\* the five blocks that follow the block of Error, in the order of the code:
\* the name interned, the class given to the prototype object, the native of
\* the constructor, which of the two objects the global is bound to, and the
\* entry of GlobalData
ErrorBlocks ==
    << [name |-> "EvalError", class |-> "EvalError", ctor |-> "eval_error_constructor",
        bound |-> "sub_ctor", data |-> "eval_error"],
       [name |-> "TypeError", class |-> "TypeError", ctor |-> "type_error_constructor",
        bound |-> "sub_ctor", data |-> "type_error"],
       [name |-> "SyntaxError", class |-> "SyntaxError", ctor |-> "syntax_error_constructor",
        bound |-> "sub_ctor", data |-> "syntax_error"],
       [name |-> "ReferenceError", class |-> "ReferenceError", ctor |-> "reference_error_constructor",
        bound |-> "sub_proto", data |-> "reference_error"],
       [name |-> "RangeError", class |-> "ReferenceError", ctor |-> "range_error_constructor",
        bound |-> "sub_proto", data |-> "range_error"] >>

ErrIdle ==
    /\ ecells = << >>
    /\ eglobal = EmptyFn
    /\ egdata = EmptyFn
    /\ estep = 0
    /\ ewrites = 0
    /\ lastName = [name |-> "", value |-> Undef]

\* the properties every error prototype gets: constructor, name, message and
\* toString; p, c and t are the addresses of the prototype, the constructor
\* and the toString function
EProtoProps(cells, p, c, t, name) ==
    EDefine(EDefine(EDefine(EDefine(cells, p, "constructor", ObjRef(c)),
                            p, "name", StringVal(name)),
                    p, "message", StringVal("")),
            p, "toString", ObjRef(t))

\* the cells of one block: the prototype at p, its constructor at p + 1 (with
\* the property prototype), the toString function at p + 2
EBlockCells(cells, p, class, proto, ctor, name) ==
    EProtoProps(
        EDefine(cells \o <<ECell(class, proto, "none"), ENative(ctor), ENative("error_to_string")>>,
                p + 1, "prototype", ObjRef(p)),
        p, p + 1, p + 2, name)

\* init_error up to the binding of the global Error
InitErrorBase ==
    /\ estep = 0
    /\ ecells' = EBlockCells(ecells, Len(ecells) + 1, "Error", ObjectPrototype, "error_constructor", "Error")
    /\ egdata' = EDefineGlobal(egdata, "error", Len(ecells) + 1)
    /\ eglobal' = EDefineGlobal(eglobal, "Error", ObjRef(Len(ecells) + 2))
    /\ estep' = 1
    /\ UNCHANGED <<ewrites, lastName>>

\* one of the blocks that follow
InitErrorBlock(b) ==
    /\ estep \in 1..Len(ErrorBlocks)
    /\ b = ErrorBlocks[estep]
    /\ ecells' = EBlockCells(ecells, Len(ecells) + 1, b.class, egdata["error"], b.ctor, b.name)
    /\ egdata' = EDefineGlobal(EDefineGlobal(egdata, b.data, Len(ecells) + 1),
                               b.data \o "_structure", Len(ecells) + 1)
    /\ eglobal' = EDefineGlobal(eglobal, b.name,
                                IF b.bound = "sub_ctor" THEN ObjRef(Len(ecells) + 2)
                                ELSE ObjRef(Len(ecells) + 1))
    /\ estep' = estep + 1
    /\ UNCHANGED <<ewrites, lastName>>

Initialized == estep = Len(ErrorBlocks) + 1

\* a program reads a global
GlobalGet(name) ==
    /\ Initialized
    /\ lastName' = [name |-> name, value |-> IF name \in DOMAIN eglobal THEN eglobal[name] ELSE Undef]
    /\ UNCHANGED <<ecells, eglobal, egdata, estep, ewrites>>

\* a program assigns to a global (the bindings are writable)
GlobalPut(name, value) ==
    /\ Initialized
    /\ ewrites < MaxErrWrites
    /\ eglobal' = EDefineGlobal(eglobal, name, value)
    /\ ewrites' = ewrites + 1
    /\ UNCHANGED <<ecells, egdata, estep, lastName>>

ErrorSubclasses == {"EvalError", "RangeError", "ReferenceError", "SyntaxError", "TypeError", "URIError"}

\* the native each subclass constructs its instances with
SubclassConstructor(name) ==
    CASE name = "EvalError" -> "eval_error_constructor"
      [] name = "RangeError" -> "range_error_constructor"
      [] name = "ReferenceError" -> "reference_error_constructor"
      [] name = "SyntaxError" -> "syntax_error_constructor"
      [] name = "TypeError" -> "type_error_constructor"
      [] name = "URIError" -> "uri_error_constructor"

\* the global name is bound to the constructor of the subclass name, whose
\* prototype property is an object of that class above Error.prototype, whose
\* constructor property is the constructor
SubclassBound(name) ==
    /\ name \in DOMAIN eglobal
    /\ eglobal[name].t = "object"
    /\ ecells[eglobal[name].v].native = SubclassConstructor(name)
    /\ "prototype" \in DOMAIN ecells[eglobal[name].v].props
    /\ ecells[ecells[eglobal[name].v].props["prototype"].v].class = name
    /\ ecells[ecells[eglobal[name].v].props["prototype"].v].proto = egdata["error"]
    /\ ecells[ecells[eglobal[name].v].props["prototype"].v].props["constructor"] = eglobal[name]

\* C29: after initialization each of the six Error subclasses is bound in the
\* global object to its constructor, the prototype of the constructor is the
\* prototype object of the subclass (of that class, above Error.prototype)
\* and the constructor of that object is the same constructor
C29_ErrorSubclasses ==
    (Initialized /\ ewrites = 0) => \A name \in ErrorSubclasses : SubclassBound(name)

(***************************************************************************)
(* Parameters of a VM call (interpreter.rs, perform_vm_call and            *)
(* setup_for_vm_call: the two bodies are the same up to the rest array).   *)
(*   rcall : the last call set up: the arguments, param_count, whether the *)
(*           build checks integer overflow, and what the setup left: the   *)
(*           cells of the new scope, the rest array, or a panic            *)
(***************************************************************************)
VARIABLES rcall

restVars == <<rcall>>

MaxParams == 2

MaxRestArgs == 3

\* a u32 as its two 16-bit halves
U32(hi, lo) == [hi |-> hi, lo |-> lo]

\* (a as u32).wrapping_sub(b as u32) for a and b below 2^16
u32_wrapping_sub(a, b) ==
    IF a >= b THEN U32(0, a - b) ELSE U32(65535, 65536 - (b - a))

\* Arguments::at: the argument, undefined past the last one
Arguments_at(args, i) == IF i < Len(args) THEN args[i + 1] ELSE Undef

ArgValues == {Undef, Int32(1), Int32(2)}

ArgLists == UNION {[1..n -> ArgValues] : n \in 0..MaxRestArgs}

\* JsArray::new(rt, n) followed by put_indexed_slot(ai, args.at(ix)) for ix
\* from i up to args.size(): an array created with the length n whose
\* elements 0, 1, ... are the arguments from position i on
rest_array(args, i, n) ==
    [length |-> n,
     elems |-> [ai \in 1..(IF Len(args) > i THEN Len(args) - i ELSE 0) |-> args[i + ai]]]

NoRest == [valid |-> FALSE, args |-> << >>, param_count |-> 0, checked |-> FALSE,
           panicked |-> FALSE, scope |-> << >>, rest |-> rest_array(<< >>, 0, U32(0, 0))]

RestIdle == rcall = NoRest

\* perform_vm_call / setup_for_vm_call of a function with rest_at =
\* param_count: the parameters are copied, then args.size() as u32 - i as u32
\* is the length the rest array is created with; the subtraction panics on
\* underflow in a build with overflow checks and wraps in one without
VmCallWithRest(args, param_count, checked) ==
    rcall' =
        IF checked /\ Len(args) < param_count
        THEN [NoRest EXCEPT !.valid = TRUE, !.args = args, !.param_count = param_count,
                            !.checked = checked, !.panicked = TRUE]
        ELSE [valid |-> TRUE, args |-> args, param_count |-> param_count, checked |-> checked,
              panicked |-> FALSE,
              scope |-> [i \in 1..param_count |-> Arguments_at(args, i - 1)],
              rest |-> rest_array(args, param_count, u32_wrapping_sub(Len(args), param_count))]

\* C30: the rest array holds the arguments from position param_count on, in
\* order; it is empty, and the call does not abort, when fewer arguments than
\* param_count are passed; a parameter without argument is undefined
C30_RestArray ==
    rcall.valid =>
        /\ ~rcall.panicked
        /\ rcall.rest.length = U32(0, Len(rcall.rest.elems))
        /\ Len(rcall.rest.elems) =
              (IF Len(rcall.args) > rcall.param_count THEN Len(rcall.args) - rcall.param_count ELSE 0)
        /\ \A ai \in 1..Len(rcall.rest.elems) : rcall.rest.elems[ai] = rcall.args[rcall.param_count + ai]
        /\ \A i \in 1..rcall.param_count :
              rcall.scope[i] = (IF i <= Len(rcall.args) THEN rcall.args[i] ELSE Undef)

(***************************************************************************)
(* Stores into guarded objects: puts and defines on objects whose          *)
(* extensible flag or whose writable flag of the elements length has been  *)
(* cleared.  lastStore keeps the heap the store started from.              *)
(***************************************************************************)
MaxGuardOps == 3

\* the writable flag of the length of the elements of o is cleared (a define
\* of length with writable false)
MakeLengthReadonly(o) ==
    /\ o \in LiveObjs
    /\ objs[o].lenw
    /\ objs' = [objs EXCEPT ![o].lenw = FALSE]
    /\ lastPut' = NoPut
    /\ nops' = nops + 1
    /\ UNCHANGED <<structs, weak, roots, chain>>

\* the heap the last store started from
StoreHeap == [objs |-> lastStore.preObjs, structs |-> lastStore.preStructs, weak |-> weak]

\* the receiver of the last store as it was before
StoreReceiver == lastStore.preObjs[lastStore.o]

\* the last store was at an index at or past the length of elements whose
\* length was not writable
StoredPastReadonlyLength ==
    /\ lastStore.valid
    /\ lastStore.k.idx
    /\ ~StoreReceiver.lenw
    /\ lastStore.k.n >= StoreReceiver.length

\* C32: a put or define at an index at or past the length of elements whose
\* length is not writable leaves length, dense vector and sparse map as
\* they were
C32_ReadonlyLength ==
    StoredPastReadonlyLength =>
        /\ objs[lastStore.o].length = StoreReceiver.length
        /\ objs[lastStore.o].vector = StoreReceiver.vector
        /\ objs[lastStore.o].map = StoreReceiver.map
        /\ objs[lastStore.o].hasMap = StoreReceiver.hasMap
        /\ objs[lastStore.o].dense = StoreReceiver.dense

\* the last store was of a key the receiver did not own, and the receiver was
\* not extensible
StoredNewOnNonExtensible ==
    /\ lastStore.valid
    /\ ~StoreReceiver.ext
    /\ ~get_own_property_slot(StoreHeap, lastStore.o, lastStore.k, Slot_new).found

\* C39: a put or define of a key an object does not own, named or indexed,
\* leaves the object as it was (Structure, slots, elements, length) when its
\* extensible flag is clear
C39_NonExtensible ==
    StoredNewOnNonExtensible => objs[lastStore.o] = StoreReceiver

(***************************************************************************)
(* Operand stack opcodes (interpreter.rs, the arms of the unary opcodes,   *)
(* OP_SPREAD and OP_NEWARRAY).  Values are a tag and two halves: a number  *)
(* is hi * 2^16 + lo, an object or a SpreadValue names its array in lo.    *)
(*   ostack : the operand stack of the frame, top last                     *)
(*   oheap  : the arrays allocated: the elements of each                   *)
(*   lastOp : the last opcode executed, its operand count and the operand  *)
(*            stack it started from                                        *)
(*   onops  : the number of opcodes executed                               *)
(***************************************************************************)
VARIABLES ostack, oheap, lastOp, onops

opVars == <<ostack, oheap, lastOp, onops>>

MaxOpStack == 3
MaxOpSteps == 4
MaxArrays == 2
MaxCount == 2

OUndefined == [t |-> "undefined", hi |-> 0, lo |-> 0]
OBool(b) == [t |-> "bool", hi |-> 0, lo |-> IF b THEN 1 ELSE 0]
OString(s) == [t |-> "string", hi |-> 0, lo |-> s]
OArray(a) == [t |-> "object", hi |-> 0, lo |-> a]
\* SpreadValue { array }
SpreadValue(a) == [t |-> "spread", hi |-> 0, lo |-> a]
\* the f64 NaN
NaN == [t |-> "double", hi |-> 0, lo |-> 0 - 1]

is_nan(x) == x.t = "double" /\ x.lo = 0 - 1

\* the numbers pushed: 0, 1, -1, 2^31 - 1, 2^31, 2^32 - 1, 2^32 + 1, -2^31,
\* -2^31 - 1 and NaN
OpNumbers ==
    { I32(0, 0), I32(0, 1), I32(0 - 1, 65535), I32(32767, 65535), F64(Num(32768, 0)),
      F64(Num(65535, 65535)), F64(Num(65536, 1)), I32(0 - 32768, 0), F64(Num(0 - 32769, 65535)), NaN }

OpValues == OpNumbers \cup {OUndefined, OBool(TRUE), OBool(FALSE), OString(3)}

\* the plain values pushed as elements of arrays
ElementValues == {I32(0, 1), I32(0, 2), OUndefined}

NoOp == [op |-> "none", n |-> 0, pre |-> << >>, heap |-> << >>]

OpIdle ==
    /\ ostack = << >>
    /\ oheap = << >>
    /\ lastOp = NoOp
    /\ onops = 0

\* JsValue::to_number for the values without user code: undefined and a
\* string that is no numeral give NaN, a boolean 0 or 1
to_number(x) ==
    CASE is_number(x) -> Num(x.hi, x.lo)
      [] x.t = "bool" -> Num(0, x.lo)
      [] OTHER -> Num(NaN.hi, NaN.lo)

\* JsValue::to_boolean
to_boolean(x) ==
    CASE x.t = "bool" -> x.lo = 1
      [] is_number(x) -> ~is_nan(x) /\ ~(x.hi = 0 /\ x.lo = 0)
      [] x.t = "undefined" -> FALSE
      [] OTHER -> TRUE

\* JsValue::type_of; the strings are numbered: "undefined", "boolean",
\* "number", "string", "object"
type_of(x) ==
    CASE x.t = "undefined" -> 1
      [] x.t = "bool" -> 2
      [] is_number(x) -> 3
      [] x.t = "string" -> 4
      [] OTHER -> 5

\* -n of an f64
f64_neg(n) ==
    IF n.lo = 0 - 1 THEN n
    ELSE IF n.lo = 0 THEN Num(0 - n.hi, 0) ELSE Num(0 - n.hi - 1, Half - n.lo)

\* n as i32 of an f64 with an integral value: the cast saturates, NaN gives 0
f64_as_i32(n) ==
    CASE n.lo = 0 - 1 -> Num(0, 0)
      [] n.hi >= 2 ^ 15 -> Num(32767, 65535)
      [] n.hi < 0 - (2 ^ 15) -> Num(0 - 32768, 0)
      [] OTHER -> n

\* ToInt32 of a number with an integral value: modulo 2^32 into the int32
\* range, NaN gives 0
to_int32(n) ==
    IF n.lo = 0 - 1 THEN Num(0, 0)
    ELSE Num(((n.hi + (2 ^ 15)) % Half) - (2 ^ 15), n.lo)

\* !n of an i32
i32_not(n) == Num(0 - n.hi - 1, 65535 - n.lo)

OTop == ostack[Len(ostack)]

OPopped == SubSeq(ostack, 1, Len(ostack) - 1)

OpSeen(op, n) == [op |-> op, n |-> n, pre |-> ostack, heap |-> oheap]

\* a push of a constant
OpPushValue(v) ==
    /\ Len(ostack) < MaxOpStack
    /\ ostack' = Append(ostack, v)
    /\ lastOp' = OpSeen("OP_PUSH", 0)
    /\ onops' = onops + 1
    /\ UNCHANGED oheap

\* OP_NEG
OpNeg ==
    /\ ostack # << >>
    /\ ostack' = Append(OPopped, F64(f64_neg(to_number(OTop))))
    /\ lastOp' = OpSeen("OP_NEG", 1)
    /\ onops' = onops + 1
    /\ UNCHANGED oheap

\* OP_NOT
OpNot ==
    /\ ostack # << >>
    /\ \E n \in {i32_not(f64_as_i32(to_number(OTop)))} :
          ostack' = Append(OPopped, I32(n.hi, n.lo))
    /\ lastOp' = OpSeen("OP_NOT", 1)
    /\ onops' = onops + 1
    /\ UNCHANGED oheap

\* OP_POS: a number is pushed back, and then the number of the value is pushed
OpPos ==
    /\ ostack # << >>
    /\ ostack' = IF is_number(OTop)
                 THEN Append(Append(OPopped, OTop), F64(to_number(OTop)))
                 ELSE Append(OPopped, F64(to_number(OTop)))
    /\ lastOp' = OpSeen("OP_POS", 1)
    /\ onops' = onops + 1
    /\ UNCHANGED oheap

\* OP_LOGICAL_NOT
OpLogicalNot ==
    /\ ostack # << >>
    /\ ostack' = Append(OPopped, OBool(~to_boolean(OTop)))
    /\ lastOp' = OpSeen("OP_LOGICAL_NOT", 1)
    /\ onops' = onops + 1
    /\ UNCHANGED oheap

\* OP_TYPEOF
OpTypeof ==
    /\ ostack # << >>
    /\ ostack' = Append(OPopped, OString(type_of(OTop)))
    /\ lastOp' = OpSeen("OP_TYPEOF", 1)
    /\ onops' = onops + 1
    /\ UNCHANGED oheap

\* OP_SPREAD of an array
OpSpread ==
    /\ ostack # << >>
    /\ OTop.t = "object"
    /\ ostack' = Append(OPopped, SpreadValue(OTop.lo))
    /\ lastOp' = OpSeen("OP_SPREAD", 1)
    /\ onops' = onops + 1
    /\ UNCHANGED oheap

RECURSIVE newarray_loop(_, _, _)
\* the while loop of OP_NEWARRAY: arr holds the elements put so far (index
\* is their number); a pop of the empty stack ends it with underflow
newarray_loop(stack, arr, count) ==
    IF Len(arr) >= count THEN [stack |-> stack, arr |-> arr, underflow |-> FALSE]
    ELSE IF stack = << >> THEN [stack |-> stack, arr |-> arr, underflow |-> TRUE]
    ELSE IF stack[Len(stack)].t = "spread"
         THEN newarray_loop(SubSeq(stack, 1, Len(stack) - 1), arr \o oheap[stack[Len(stack)].lo], count)
         ELSE newarray_loop(SubSeq(stack, 1, Len(stack) - 1), Append(arr, stack[Len(stack)]), count)

\* OP_NEWARRAY count, when the frame holds enough entries for its pops
OpNewArray(count) ==
    /\ Len(oheap) < MaxArrays
    /\ \E r \in {newarray_loop(ostack, << >>, count)} :
          /\ ~r.underflow
          /\ oheap' = Append(oheap, r.arr)
          /\ ostack' = Append(r.stack, OArray(Len(oheap) + 1))
    /\ lastOp' = OpSeen("OP_NEWARRAY", count)
    /\ onops' = onops + 1

UnaryOpcodes == {"OP_NEG", "OP_NOT", "OP_POS", "OP_LOGICAL_NOT", "OP_TYPEOF"}

\* C35: a unary opcode leaves the operand stack as high as it found it, with
\* the entries below the operand as they were
C35_UnaryFrameEffect ==
    lastOp.op \in UnaryOpcodes =>
        /\ Len(ostack) = Len(lastOp.pre)
        /\ SubSeq(ostack, 1, Len(ostack) - 1) = SubSeq(lastOp.pre, 1, Len(lastOp.pre) - 1)

\* the operand of the last opcode
Operand == lastOp.pre[Len(lastOp.pre)]

\* C36: OP_NOT pushes the complement of ToInt32 of its operand, the
\* conversion the shift opcodes use
C36_NotOfToInt32 ==
    (lastOp.op = "OP_NOT" /\ is_number(Operand)) =>
        \E n \in {i32_not(to_int32(to_number(Operand)))} : OTop = I32(n.hi, n.lo)

RECURSIVE spread_all(_, _)
\* the elements of the entries in pop order (top first), a SpreadValue
\* replaced by the elements of its array
spread_all(entries, heap) ==
    IF entries = << >> THEN << >>
    ELSE (IF entries[Len(entries)].t = "spread" THEN heap[entries[Len(entries)].lo]
          ELSE <<entries[Len(entries)]>>)
         \o spread_all(SubSeq(entries, 1, Len(entries) - 1), heap)

\* C37: OP_NEWARRAY n pops exactly the n entries on top and pushes one array
\* that holds, in pop order, the plain entries and the elements of the spread
\* ones
C37_NewArray ==
    (lastOp.op = "OP_NEWARRAY" /\ Len(lastOp.pre) >= lastOp.n) =>
        /\ Len(ostack) = Len(lastOp.pre) - lastOp.n + 1
        /\ OPopped = SubSeq(lastOp.pre, 1, Len(lastOp.pre) - lastOp.n)
        /\ OTop.t = "object"
        /\ oheap[OTop.lo] =
              spread_all(SubSeq(lastOp.pre, Len(lastOp.pre) - lastOp.n + 1, Len(lastOp.pre)), lastOp.heap)

(***************************************************************************)
(* The state of a cell header (cell.rs, GcPointerBase): one atomic byte    *)
(* that marker threads change with set_state.                              *)
(*   cellState : the cell_state of the header                              *)
(*   lastSet   : the last call of set_state: its arguments, the state it   *)
(*               found, the state it left and what it returned             *)
(*   round     : the calls set_state(white, grey) of the marker threads on *)
(*               the header since it was made: who called, who got true    *)
(*   cellOps   : the number of calls                                       *)
(***************************************************************************)
VARIABLES cellState, lastSet, round, cellOps

cellVars == <<cellState, lastSet, round, cellOps>>

MaxCellOps == 4

POSSIBLY_BLACK == 0
POSSIBLY_GREY == 2
DEFINETELY_WHITE == 1

CellStates == {POSSIBLY_BLACK, POSSIBLY_GREY, DEFINETELY_WHITE}

\* the threads that mark
Markers == {1, 2}

NoSet == [valid |-> FALSE, from |-> 0, to |-> 0, pre |-> 0, post |-> 0, ret |-> FALSE]

NewRound == [open |-> TRUE, tried |-> {}, won |-> {}]

\* the header after GcPointerBase::new
CellIdle ==
    /\ cellState = DEFINETELY_WHITE
    /\ lastSet = NoSet
    /\ round = NewRound
    /\ cellOps = 0

\* GcPointerBase::set_state: compare_exchange_weak(from, to) == Ok(from); the
\* weak exchange may fail although the state equals from (spurious)
set_state(state, from, to, spurious) ==
    IF state = from /\ ~spurious THEN [state |-> to, ret |-> TRUE] ELSE [state |-> state, ret |-> FALSE]

\* GcPointerBase::new
NewHeader ==
    /\ cellState' = DEFINETELY_WHITE
    /\ lastSet' = NoSet
    /\ round' = NewRound
    /\ cellOps' = cellOps + 1

\* a call of set_state(from, to) outside the marking of the round
SetState(from, to, spurious) ==
    /\ \E r \in {set_state(cellState, from, to, spurious)} :
          /\ cellState' = r.state
          /\ lastSet' = [valid |-> TRUE, from |-> from, to |-> to, pre |-> cellState,
                         post |-> r.state, ret |-> r.ret]
    /\ round' = [round EXCEPT !.open = FALSE]
    /\ cellOps' = cellOps + 1

\* the marker thread t calls set_state(DEFINETELY_WHITE, POSSIBLY_GREY); the
\* calls of the threads are atomic and interleave in any order
MarkGrey(t, spurious) ==
    /\ t \notin round.tried
    /\ \E r \in {set_state(cellState, DEFINETELY_WHITE, POSSIBLY_GREY, spurious)} :
          /\ cellState' = r.state
          /\ lastSet' = [valid |-> TRUE, from |-> DEFINETELY_WHITE, to |-> POSSIBLY_GREY,
                         pre |-> cellState, post |-> r.state, ret |-> r.ret]
          /\ round' = [round EXCEPT !.tried = @ \cup {t},
                                    !.won = IF r.ret THEN @ \cup {t} ELSE @]
    /\ cellOps' = cellOps + 1

\* GcPointerBase::force_set_state
ForceSetState(to) ==
    /\ cellState' = to
    /\ lastSet' = NoSet
    /\ round' = [round EXCEPT !.open = FALSE]
    /\ cellOps' = cellOps + 1

\* C38: set_state(from, to) returns true exactly when it finds the state from,
\* and then leaves the state to; when it returns false it leaves the state as
\* it was; a new header is white, and of the marker threads that all call
\* set_state(white, grey) on a new header exactly one gets true
C38_SetState ==
    /\ lastSet.valid =>
          /\ lastSet.ret = (lastSet.pre = lastSet.from)
          /\ lastSet.ret => lastSet.post = lastSet.to
          /\ ~lastSet.ret => lastSet.post = lastSet.pre
    /\ (round.open /\ round.tried = {}) => cellState = DEFINETELY_WHITE
    /\ (round.open /\ round.tried = Markers) => Cardinality(round.won) = 1

(***************************************************************************)
(* Specifications.                                                         *)
(***************************************************************************)
vars ==
    <<objs, structs, weak, roots, lastPut, chain, nops, astack, profile, lastAdd, everOv, nadds,
      frames, cur, ef, mode, lastThrow, lastRet, gcPre, lastDeref, site, feedback, lastGet, snap,
      vstack, cframes, cursor, cmode, cresult, ncalls, lastCall, lastCRet,
      pfeedback, lastPid, pgc, lastDel, lastStore,
      envs, estack, lastWrite, neops,
      sfLast, sfAsked, sfSteps,
      unit, cpc, ctry, cstatus, csteps, lastJump, lastRaise, cscope, cbase, lastCont,
      symtab, symout, symlast,
      ecells, eglobal, egdata, estep, ewrites, lastName,
      rcall,
      ostack, oheap, lastOp, onops,
      cellState, lastSet, round, cellOps>>

ObjOnly == UNCHANGED <<arithVars, vmVars, gcVars, icVars, snapVars, callVars, picVars, delVars, storeVars, envVars, safeVars, codeVars, symVars, errVars, restVars, opVars, cellVars>>

ObjNext ==
    \/ nops < MaxOps /\ ObjOnly /\ \E o \in LiveObjs, k \in Symbols, v \in PutValues : Put(o, k, v)
    \/ nops < MaxOps /\ ObjOnly /\ \E o \in LiveObjs, k \in Symbols, d \in DefineDescs : Define(o, k, d)
    \/ nops < MaxOps /\ ObjOnly /\ \E o \in LiveObjs, k \in NamedKeys : Delete(o, k)
    \/ nops < MaxOps /\ ObjOnly /\ NewObject(1)
    \/ nops < MaxOps /\ ObjOnly /\ \E o \in LiveObjs : PreventExtensions(o)
    \/ ObjOnly /\ \E o \in DOMAIN objs \ {1, 2} : Unroot(o)
    \/ ObjOnly /\ Gc

InitObj == ObjInit /\ GcIdle /\ IcIdle /\ SnapIdle /\ ArithInit /\ VmInit /\ CallIdle /\ PicIdle /\ DelIdle /\ StoreIdle /\ EnvIdle /\ SafeIdle /\ CodeIdle /\ SymIdle /\ ErrIdle /\ RestIdle /\ OpIdle /\ CellIdle

SpecObj == InitObj /\ [][ObjNext]_vars

\* two objects created with the same Structure, named keys only
ShapeInit ==
    /\ structs = (1 :> Structure_new(NoObj, FALSE, FALSE))
    /\ objs = LET H0 == [objs |-> EmptyFn, structs |-> structs, weak |-> EmptyFn]
                  H1 == JsObject_new(H0, 1, "Object").H
              IN JsObject_new(H1, 1, "Object").H.objs
    /\ weak = EmptyFn
    /\ roots = {ObjCell(1), ObjCell(2), StructCell(1)}
    /\ lastPut = NoPut
    /\ chain = [o \in {1, 2} |-> NewChain(1)]
    /\ nops = 0

ShapeNext ==
    \/ nops < MaxShapeOps /\ ObjOnly /\ \E o \in LiveObjs, k \in NamedKeys, v \in PutValues : Put(o, k, v)
    \/ nops < MaxShapeOps /\ ObjOnly /\ \E o \in LiveObjs, k \in NamedKeys : Define(o, k, DescNone(Int32(1)))
    \/ nops < MaxShapeOps /\ ObjOnly /\ \E o \in LiveObjs, k \in NamedKeys : Delete(o, k)
    \/ ObjOnly /\ Gc

InitShape == ShapeInit /\ GcIdle /\ IcIdle /\ SnapIdle /\ ArithInit /\ VmInit /\ CallIdle /\ PicIdle /\ DelIdle /\ StoreIdle /\ EnvIdle /\ SafeIdle /\ CodeIdle /\ SymIdle /\ ErrIdle /\ RestIdle /\ OpIdle /\ CellIdle

SpecShape == InitShape /\ [][ShapeNext]_vars

ArithOnly == UNCHANGED <<objVars, vmVars, gcVars, icVars, snapVars, callVars, picVars, delVars, storeVars, envVars, safeVars, codeVars, symVars, errVars, restVars, opVars, cellVars>>

ArithNext ==
    \/ ArithOnly /\ \E x \in ArithInputs : PushInt(x)
    \/ ArithOnly /\ PopValue
    \/ ArithOnly /\ Add

InitArith == ObjInit /\ GcIdle /\ IcIdle /\ SnapIdle /\ ArithInit /\ VmInit /\ CallIdle /\ PicIdle /\ DelIdle /\ StoreIdle /\ EnvIdle /\ SafeIdle /\ CodeIdle /\ SymIdle /\ ErrIdle /\ RestIdle /\ OpIdle /\ CellIdle

SpecArith == InitArith /\ [][ArithNext]_vars

VmOnly == UNCHANGED <<objVars, arithVars, gcVars, icVars, snapVars, callVars, picVars, delVars, storeVars, envVars, safeVars, codeVars, symVars, errVars, restVars, opVars, cellVars>>

VmNext ==
    \/ VmOnly /\ Enter
    \/ VmOnly /\ OpPush
    \/ VmOnly /\ OpPop
    \/ VmOnly /\ OpPushCatch
    \/ VmOnly /\ OpPopCatch
    \/ VmOnly /\ OpThrow
    \/ VmOnly /\ \E argc \in 0..MaxArgc, func \in CalleeKinds, nativeOk \in BOOLEAN :
                    OpCall(argc, func, nativeOk)
    \/ VmOnly /\ OpRet

InitVM == ObjInit /\ GcIdle /\ IcIdle /\ SnapIdle /\ ArithInit /\ VmInit /\ CallIdle /\ PicIdle /\ DelIdle /\ StoreIdle /\ EnvIdle /\ SafeIdle /\ CodeIdle /\ SymIdle /\ ErrIdle /\ RestIdle /\ OpIdle /\ CellIdle

SpecVM == InitVM /\ [][VmNext]_vars

GcOnly == UNCHANGED <<arithVars, vmVars, icVars, snapVars, callVars, picVars, delVars, storeVars, envVars, safeVars, codeVars, symVars, errVars, restVars, opVars, cellVars>>
Forget == gcPre' = NoGc /\ lastDeref' = Empty

GcNext ==
    \/ nops < MaxGcOps /\ GcOnly /\ Forget /\ NewObject(1)
    \/ nops < MaxGcOps /\ GcOnly /\ Forget
          /\ \E t \in {ObjRef(o) : o \in LiveObjs} \cup {Undef} : NewWeakRef(t)
    \/ nops < MaxGcOps /\ GcOnly /\ Forget
          /\ \E o \in LiveObjs, t \in LiveObjs : Put(o, KeySym(1), ObjRef(t))
    \/ GcOnly /\ Forget /\ \E o \in DOMAIN objs : Unroot(o)
    \/ GcOnly /\ \E o \in DOMAIN objs : Deref(o) /\ UNCHANGED objVars
    \/ GcOnly /\ GcObserved

InitGC == GcInit /\ IcIdle /\ SnapIdle /\ ArithInit /\ VmInit /\ CallIdle /\ PicIdle /\ DelIdle /\ StoreIdle /\ EnvIdle /\ SafeIdle /\ CodeIdle /\ SymIdle /\ ErrIdle /\ RestIdle /\ OpIdle /\ CellIdle

SpecGC == InitGC /\ [][GcNext]_vars

IcOnly == UNCHANGED <<arithVars, vmVars, gcVars, snapVars, callVars, picVars, delVars, storeVars, envVars, safeVars, codeVars, symVars, errVars, restVars, opVars, cellVars>>
IcForget == lastGet' = NoGet /\ UNCHANGED <<site, feedback>>

IcNext ==
    \/ nops < MaxIcOps /\ IcOnly /\ IcForget
          /\ \E o \in LiveObjs, k \in {site.name}, v \in PutValues : Put(o, k, v)
    \/ nops < MaxIcOps /\ IcOnly /\ IcForget
          /\ \E o \in LiveObjs : Put(o, KeySym(2), Int32(1))
    \/ nops < MaxIcOps /\ IcOnly /\ IcForget
          /\ \E o \in LiveObjs \ {3}, k \in {site.name}, d \in IcDescs : Define(o, k, d)
    \/ nops < MaxIcOps /\ IcOnly /\ IcForget
          /\ \E o \in LiveObjs \ {3}, k \in {site.name} : Delete(o, k)
    \/ IcOnly /\ IcForget /\ Unroot(2)
    \/ IcOnly /\ IcForget /\ Gc
    \/ IcOnly /\ \E o \in LiveObjs : GetById(o)
    \/ IcOnly /\ \E val \in Primitives : GetByIdPrimitive(val)

InitIC == IcInit /\ GcIdle /\ SnapIdle /\ ArithInit /\ VmInit /\ CallIdle /\ PicIdle /\ DelIdle /\ StoreIdle /\ EnvIdle /\ SafeIdle /\ CodeIdle /\ SymIdle /\ ErrIdle /\ RestIdle /\ OpIdle /\ CellIdle

SpecIC == InitIC /\ [][IcNext]_vars

SnapOnly == UNCHANGED <<arithVars, vmVars, gcVars, icVars, callVars, picVars, delVars, storeVars, envVars, safeVars, codeVars, symVars, errVars, restVars, opVars, cellVars>>
SnapForget == snap' = NoSnap

SnapNext ==
    \/ nops < MaxSnapOps /\ SnapOnly /\ SnapForget /\ NewObject(1)
    \/ nops < MaxSnapOps /\ SnapOnly /\ SnapForget
          /\ \E t \in {ObjRef(o) : o \in LiveObjs} : NewWeakRef(t)
    \/ nops < MaxSnapOps /\ SnapOnly /\ SnapForget
          /\ \E o \in LiveObjs, k \in Symbols, v \in {Int32(1)} \cup {ObjRef(t) : t \in LiveObjs} :
                Put(o, k, v)
    \/ SnapOnly /\ SnapForget /\ \E o \in DOMAIN objs : Unroot(o)
    \/ SnapOnly /\ SnapForget /\ Gc
    \/ SnapOnly /\ TakeSnapshot

InitSnap == GcInit /\ IcIdle /\ SnapIdle /\ ArithInit /\ VmInit /\ CallIdle /\ PicIdle /\ DelIdle /\ StoreIdle /\ EnvIdle /\ SafeIdle /\ CodeIdle /\ SymIdle /\ ErrIdle /\ RestIdle /\ OpIdle /\ CellIdle

SpecSnap == InitSnap /\ [][SnapNext]_vars

CallOnly == UNCHANGED <<objVars, arithVars, vmVars, gcVars, icVars, snapVars, picVars, delVars, storeVars, envVars, safeVars, codeVars, symVars, errVars, restVars, opVars, cellVars>>

CallNext ==
    \/ CallOnly /\ CEnter
    \/ CallOnly /\ \E v \in PushVals : CPush(v)
    \/ CallOnly /\ CPop
    \/ CallOnly /\ \E argc \in 0..MaxArgc, ok \in BOOLEAN, result \in NativeResults :
                      CCall(argc, ok, result)
    \/ CallOnly /\ \E argc \in 0..MaxArgc, ok \in BOOLEAN, result \in NativeResults :
                      CNew(argc, ok, result)
    \/ CallOnly /\ CRet

InitCall == ObjInit /\ GcIdle /\ IcIdle /\ SnapIdle /\ ArithInit /\ VmInit /\ CallIdle /\ PicIdle /\ DelIdle /\ StoreIdle /\ EnvIdle /\ SafeIdle /\ CodeIdle /\ SymIdle /\ ErrIdle /\ RestIdle /\ OpIdle /\ CellIdle

SpecCall == InitCall /\ [][CallNext]_vars

\* objects created with the same Structure; every value tells its key
LayoutNext ==
    \/ nops < MaxLayoutOps /\ ObjOnly /\ \E o \in LiveObjs, k \in NamedKeys : Put(o, k, ValOf(k))
    \/ nops < MaxLayoutOps /\ ObjOnly
          /\ \E o \in LiveObjs, k \in NamedKeys : \E d \in LayoutDescs(k) : Define(o, k, d)
    \/ nops < MaxLayoutOps /\ ObjOnly /\ \E o \in LiveObjs, k \in NamedKeys : Delete(o, k)
    \/ nops < MaxLayoutOps /\ ObjOnly /\ NewObject(1)
    \/ ObjOnly /\ Gc

SpecLayout == InitShape /\ [][LayoutNext]_vars

PicOnly == UNCHANGED <<arithVars, vmVars, gcVars, snapVars, callVars, delVars, storeVars, envVars, safeVars, codeVars, symVars, errVars, restVars, opVars, cellVars>>
PicWrite == UNCHANGED icVars
PicForget == lastPid' = NoPid /\ pgc' = NoPgc /\ UNCHANGED pfeedback

\* the two sites run on the objects of IcInit, which lose their handles and
\* their extensible flag one by one
PicNext ==
    \/ nops < MaxPicOps /\ PicOnly /\ PicWrite
          /\ \E o \in LiveObjs \ {3}, v \in PutValues : PutById(o, v)
    \/ nops < MaxPicOps /\ PicOnly /\ PicWrite /\ PicForget
          /\ \E o \in LiveObjs \ {2, 3} : PreventExtensions(o)
    \/ PicOnly /\ PicForget /\ \E o \in LiveObjs \ {2} : GetById(o)
    \/ PicOnly /\ PicWrite /\ PicForget /\ \E o \in {1, 2} : Unroot(o)
    \/ PicOnly /\ PicWrite /\ PicForget /\ UnrootStructure(1)
    \/ PicOnly /\ PicWrite /\ \E traced \in BOOLEAN : PicGc(traced)

InitPIC == IcInit /\ ~site.is_try /\ GcIdle /\ SnapIdle /\ ArithInit /\ VmInit /\ CallIdle /\ PicIdle /\ DelIdle /\ StoreIdle /\ EnvIdle /\ SafeIdle /\ CodeIdle /\ SymIdle /\ ErrIdle /\ RestIdle /\ OpIdle /\ CellIdle

SpecPIC == InitPIC /\ [][PicNext]_vars

DelOnly == UNCHANGED <<arithVars, vmVars, gcVars, icVars, snapVars, callVars, picVars, storeVars, envVars, safeVars, codeVars, symVars, errVars, restVars, opVars, cellVars>>
DelForget == lastDel' = NoDel

\* puts, defines and deletes of names and indices on an object and its
\* prototype
DelNext ==
    \/ nops < MaxDelOps /\ DelOnly /\ DelForget
          /\ \E o \in LiveObjs, k \in Symbols : Put(o, k, Int32(2))
    \/ nops < MaxDelOps /\ DelOnly /\ DelForget
          /\ \E o \in LiveObjs, k \in Symbols, d \in DelDescs : Define(o, k, d)
    \/ nops < MaxDelOps /\ DelOnly /\ \E o \in LiveObjs, k \in Symbols : DeleteObserved(o, k)

InitDel == ObjInit /\ GcIdle /\ IcIdle /\ SnapIdle /\ ArithInit /\ VmInit /\ CallIdle /\ PicIdle /\ DelIdle /\ StoreIdle /\ EnvIdle /\ SafeIdle /\ CodeIdle /\ SymIdle /\ ErrIdle /\ RestIdle /\ OpIdle /\ CellIdle

SpecDel == InitDel /\ [][DelNext]_vars

StoreOnly == UNCHANGED <<arithVars, vmVars, gcVars, icVars, snapVars, callVars, picVars, delVars, envVars, safeVars, codeVars, symVars, errVars, restVars, opVars, cellVars>>

\* puts and defines of names and indices on objects that start with one
\* Structure
StoreNext ==
    \/ nops < MaxStoreOps /\ StoreOnly
          /\ \E o \in LiveObjs, k \in Symbols : PutObserved(o, k, Int32(2))
    \/ nops < MaxStoreOps /\ StoreOnly
          /\ \E o \in LiveObjs, k \in Symbols, d \in DelDescs : DefineObserved(o, k, d)
    \/ nops < MaxStoreOps /\ StoreOnly /\ lastStore' = NoStore /\ NewObject(1)
    \/ nops < MaxStoreOps /\ StoreOnly /\ lastStore' = NoStore
          /\ \E o \in LiveObjs : PreventExtensions(o)

InitStore == ShapeInit /\ GcIdle /\ IcIdle /\ SnapIdle /\ ArithInit /\ VmInit /\ CallIdle /\ PicIdle /\ DelIdle /\ StoreIdle /\ EnvIdle /\ SafeIdle /\ CodeIdle /\ SymIdle /\ ErrIdle /\ RestIdle /\ OpIdle /\ CellIdle

SpecStore == InitStore /\ [][StoreNext]_vars

EnvOnly == UNCHANGED <<objVars, arithVars, vmVars, gcVars, icVars, snapVars, callVars, picVars, delVars, storeVars, safeVars, codeVars, symVars, errVars, restVars, opVars, cellVars>>

\* declarations and writes of the cells of the Environment of the frame
EnvNext ==
    \/ neops < MaxEnvOps /\ EnvOnly /\ \E v \in PutValues : EPushValue(v)
    \/ neops < MaxEnvOps /\ EnvOnly /\ \E depth \in {0, 1} : GetEnv(depth)
    \/ neops < MaxEnvOps /\ EnvOnly /\ \E ix \in 0..(EnvSize - 1) : DeclConst(ix)
    \/ neops < MaxEnvOps /\ EnvOnly /\ \E ix \in 0..(EnvSize - 1) : DeclLet(ix)
    \/ neops < MaxEnvOps /\ EnvOnly /\ \E ix \in 0..(EnvSize - 1) : GE0SL(ix)
    \/ neops < MaxEnvOps /\ EnvOnly /\ \E ix \in 0..(EnvSize - 1) : SetLocal(ix)

InitEnv == ObjInit /\ GcIdle /\ IcIdle /\ SnapIdle /\ ArithInit /\ VmInit /\ CallIdle /\ PicIdle /\ DelIdle /\ StoreIdle /\ EnvIdle /\ SafeIdle /\ CodeIdle /\ SymIdle /\ ErrIdle /\ RestIdle /\ OpIdle /\ CellIdle

SpecEnv == InitEnv /\ [][EnvNext]_vars

\* entries of the interpreter, calls and constructions of functions without
\* arguments, try blocks, throws and returns: the steps that ask for a frame and the
\* ones that leave frames behind
PushNext ==
    \/ VmOnly /\ Enter
    \/ VmOnly /\ OpPush
    \/ VmOnly /\ OpPushCatch
    \/ VmOnly /\ OpThrow
    \/ VmOnly /\ \E func \in {"vm function", "native function"} : OpCall(0, func, TRUE)
    \/ VmOnly /\ \E func \in {"vm function", "native function"} : OpNew(0, func, TRUE)
    \/ VmOnly /\ OpRet

SpecPush == InitVM /\ [][PushNext]_vars

SafeOnly == UNCHANGED <<objVars, arithVars, vmVars, gcVars, icVars, snapVars, callVars, picVars, delVars, storeVars, envVars, codeVars, symVars, errVars, restVars, opVars, cellVars>>

SafeNext ==
    \/ SafeOnly /\ EvalEntry
    \/ sfSteps < MaxSafeSteps /\ SafeOnly
          /\ \E op \in Opcodes : \E dir \in JumpDirections(op) : EvalStep(op, dir)

InitSafe == ObjInit /\ GcIdle /\ IcIdle /\ SnapIdle /\ ArithInit /\ VmInit /\ CallIdle /\ PicIdle /\ DelIdle /\ StoreIdle /\ EnvIdle /\ SafeIdle /\ CodeIdle /\ SymIdle /\ ErrIdle /\ RestIdle /\ OpIdle /\ CellIdle

SpecSafe == InitSafe /\ [][SafeNext]_vars

CodeOnly == UNCHANGED <<objVars, arithVars, vmVars, gcVars, icVars, snapVars, callVars, picVars, delVars, storeVars, envVars, safeVars, symVars, errVars, restVars, opVars, cellVars>>

CodeNext ==
    \/ CodeOnly /\ \E ss \in Programs : CompileAndEnter(ss)
    \/ csteps < MaxCodeSteps /\ CodeOnly /\ CJmp
    \/ csteps < MaxCodeSteps /\ CodeOnly /\ \E value \in BOOLEAN : CJmpIf(value)
    \/ csteps < MaxCodeSteps /\ CodeOnly /\ CPushCatch
    \/ csteps < MaxCodeSteps /\ CodeOnly /\ CThrow
    \/ csteps < MaxCodeSteps /\ CodeOnly /\ CodeRet
    \/ csteps < MaxCodeSteps /\ CodeOnly /\ COther

InitCode == ObjInit /\ GcIdle /\ IcIdle /\ SnapIdle /\ ArithInit /\ VmInit /\ CallIdle /\ PicIdle /\ DelIdle /\ StoreIdle /\ EnvIdle /\ SafeIdle /\ CodeIdle /\ SymIdle /\ ErrIdle /\ RestIdle /\ OpIdle /\ CellIdle

SpecCode == InitCode /\ [][CodeNext]_vars

SymOnly == UNCHANGED <<objVars, arithVars, vmVars, gcVars, icVars, snapVars, callVars, picVars, delVars, storeVars, envVars, safeVars, codeVars, errVars, restVars, opVars, cellVars>>

SymNext ==
    \/ SymOnly /\ \E name \in PublicNames : InternSymbol(name)
    \/ SymOnly /\ \E order \in IterationOrders(Cardinality(DOMAIN symtab)) : BuildSymbolTable(order)
    \/ SymOnly /\ \E name \in DOMAIN symtab : WriteSymbol(name)

InitSym == ObjInit /\ GcIdle /\ IcIdle /\ SnapIdle /\ ArithInit /\ VmInit /\ CallIdle /\ PicIdle /\ DelIdle /\ StoreIdle /\ EnvIdle /\ SafeIdle /\ CodeIdle /\ SymIdle /\ ErrIdle /\ RestIdle /\ OpIdle /\ CellIdle

SpecSym == InitSym /\ [][SymNext]_vars

ErrOnly == UNCHANGED <<objVars, arithVars, vmVars, gcVars, icVars, snapVars, callVars, picVars, delVars, storeVars, envVars, safeVars, codeVars, symVars, restVars, opVars, cellVars>>

ErrNext ==
    \/ ErrOnly /\ InitErrorBase
    \/ ErrOnly /\ \E i \in 1..Len(ErrorBlocks) : InitErrorBlock(ErrorBlocks[i])
    \/ ErrOnly /\ \E name \in ErrorSubclasses \cup {"Error"} : GlobalGet(name)
    \/ ErrOnly /\ \E name \in ErrorSubclasses, value \in {Undef, Int32(1)} : GlobalPut(name, value)

InitErr == ObjInit /\ GcIdle /\ IcIdle /\ SnapIdle /\ ArithInit /\ VmInit /\ CallIdle /\ PicIdle /\ DelIdle /\ StoreIdle /\ EnvIdle /\ SafeIdle /\ CodeIdle /\ SymIdle /\ ErrIdle /\ RestIdle /\ OpIdle /\ CellIdle

SpecErr == InitErr /\ [][ErrNext]_vars

RestOnly == UNCHANGED <<objVars, arithVars, vmVars, gcVars, icVars, snapVars, callVars, picVars, delVars, storeVars, envVars, safeVars, codeVars, symVars, errVars, opVars, cellVars>>

RestNext ==
    RestOnly /\ \E args \in ArgLists, param_count \in 0..MaxParams, checked \in BOOLEAN :
                    VmCallWithRest(args, param_count, checked)

InitRest == ObjInit /\ GcIdle /\ IcIdle /\ SnapIdle /\ ArithInit /\ VmInit /\ CallIdle /\ PicIdle /\ DelIdle /\ StoreIdle /\ EnvIdle /\ SafeIdle /\ CodeIdle /\ SymIdle /\ ErrIdle /\ RestIdle /\ OpIdle /\ CellIdle

SpecRest == InitRest /\ [][RestNext]_vars

GuardNext ==
    \/ nops < MaxGuardOps /\ StoreOnly
          /\ \E o \in LiveObjs, k \in Symbols : PutObserved(o, k, Int32(2))
    \/ nops < MaxGuardOps /\ StoreOnly
          /\ \E o \in LiveObjs, k \in Symbols, d \in DelDescs : DefineObserved(o, k, d)
    \/ nops < MaxGuardOps /\ StoreOnly /\ lastStore' = NoStore
          /\ \E o \in LiveObjs : PreventExtensions(o)
    \/ nops < MaxGuardOps /\ StoreOnly /\ lastStore' = NoStore
          /\ \E o \in LiveObjs : MakeLengthReadonly(o)

SpecGuard == InitObj /\ [][GuardNext]_vars

LoopNext ==
    \/ CodeOnly /\ \E ss \in LoopPrograms : CompileAndEnter(ss)
    \/ csteps < MaxLoopSteps /\ CodeOnly /\ CJmp
    \/ csteps < MaxLoopSteps /\ CodeOnly /\ \E value \in BOOLEAN : CJmpIf(value)
    \/ csteps < MaxLoopSteps /\ CodeOnly /\ CodeRet
    \/ csteps < MaxLoopSteps /\ CodeOnly /\ COther

SpecLoop == InitCode /\ [][LoopNext]_vars

OpOnly == UNCHANGED <<objVars, arithVars, vmVars, gcVars, icVars, snapVars, callVars, picVars, delVars, storeVars, envVars, safeVars, codeVars, symVars, errVars, restVars, cellVars>>

UnaryNext ==
    \/ onops < MaxOpSteps /\ OpOnly /\ \E v \in OpValues : OpPushValue(v)
    \/ onops < MaxOpSteps /\ OpOnly /\ OpNeg
    \/ onops < MaxOpSteps /\ OpOnly /\ OpNot
    \/ onops < MaxOpSteps /\ OpOnly /\ OpPos
    \/ onops < MaxOpSteps /\ OpOnly /\ OpLogicalNot
    \/ onops < MaxOpSteps /\ OpOnly /\ OpTypeof

InitOps == ObjInit /\ GcIdle /\ IcIdle /\ SnapIdle /\ ArithInit /\ VmInit /\ CallIdle /\ PicIdle /\ DelIdle /\ StoreIdle /\ EnvIdle /\ SafeIdle /\ CodeIdle /\ SymIdle /\ ErrIdle /\ RestIdle /\ OpIdle /\ CellIdle

SpecUnary == InitOps /\ [][UnaryNext]_vars

MaxArraySteps == 7

ArrayNext ==
    \/ onops < MaxArraySteps /\ OpOnly /\ \E v \in ElementValues : OpPushValue(v)
    \/ onops < MaxArraySteps /\ OpOnly /\ OpSpread
    \/ onops < MaxArraySteps /\ OpOnly /\ \E count \in 0..MaxCount : OpNewArray(count)

SpecArray == InitOps /\ [][ArrayNext]_vars

CellOnly == UNCHANGED <<objVars, arithVars, vmVars, gcVars, icVars, snapVars, callVars, picVars, delVars, storeVars, envVars, safeVars, codeVars, symVars, errVars, restVars, opVars>>

CellNext ==
    \/ cellOps < MaxCellOps /\ CellOnly /\ NewHeader
    \/ cellOps < MaxCellOps /\ CellOnly
          /\ \E from \in CellStates, to \in CellStates, spurious \in BOOLEAN : SetState(from, to, spurious)
    \/ cellOps < MaxCellOps /\ CellOnly /\ \E t \in Markers, spurious \in BOOLEAN : MarkGrey(t, spurious)
    \/ cellOps < MaxCellOps /\ CellOnly /\ \E to \in CellStates : ForceSetState(to)

InitCell == ObjInit /\ GcIdle /\ IcIdle /\ SnapIdle /\ ArithInit /\ VmInit /\ CallIdle /\ PicIdle /\ DelIdle /\ StoreIdle /\ EnvIdle /\ SafeIdle /\ CodeIdle /\ SymIdle /\ ErrIdle /\ RestIdle /\ OpIdle /\ CellIdle

SpecCell == InitCell /\ [][CellNext]_vars
====
